---- MODULE Spec2Model ----
(***************************************************************************)
(* Decode-time engine of the summariser: the beam-search loop of           *)
(* Translator.translate_batch, the DecoderState it reindexes, the          *)
(* decoders of onmt/Models.py, the Beam of one example and the score       *)
(* report of Translator.translate.                                         *)
(*                                                                         *)
(* Tensors are modelled along their batch dimension only: a tensor of      *)
(* shape [layers x br x dim] is a function 0..br-1 -> value, the value     *)
(* standing for the whole [layers x dim] slice of that batch column.       *)
(* Values produced by the learned functions (recurrent cell, attention,    *)
(* gate) are symbolic terms, so that two values are equal exactly when     *)
(* they were computed from the same inputs.                                *)
(***************************************************************************)
EXTENDS Integers, Sequences, FiniteSets, TLC

\* ------------------------------------------------------------------ bounds
MaxBatch == 2       \* largest batch.batch_size explored
MaxBeam == 2        \* largest beam_size explored
MaxSlots == 4       \* largest batch_size * beam_size explored
MaxLength == 2      \* largest max_length explored
VocabSize == 2      \* len(fields["tgt"].vocab) in the explored runs
MaxExtra == 1       \* extended-vocabulary (copied OOV) slots per example
MaxTgt == 3         \* longest target sequence fed to the decoder
MaxTranslations == 2 \* most translations one translate call produces
MaxWords == 2       \* most words of a predicted or gold sentence
NumWords == 2       \* words of the target vocabulary next to the terminal symbol
MaxNgram == 2       \* largest block_ngram_repeat explored
BeamMaxLength == 3  \* max_length of the decodes that follow one beam
SrcLen == 2         \* source positions of the memory bank
MaxLayers == 2      \* most layers of the encoder explored
MaxDocs == 4        \* largest batch handed to hierarchical_encode
MaxContext == 2     \* most sentences of a source example

\* ------------------------------------------------------- program constants
UNK == 0            \* "0 is unk": the fill value of masked_fill
PadId == 1          \* "pad 1": what sample writes after the end of a sequence
EosIndex == 3       \* eos_index=3, the default of sample

\* an optional value is a sequence of length 0 (None) or 1
None == <<>>
Some(x) == <<x>>

VARIABLES
    cfg,            \* the Translator/decoder configuration of this call
    pc,             \* position of translate_batch
    i,              \* loop variable of "for i in range(self.max_length)"
    j,              \* loop variable of "for j, b in enumerate(beam)"
    raw_inp,        \* the stacked get_current_state() of all beams
    inp,            \* the tensor handed to the decoder
    dec_states,     \* the RNNDecoderState: hidden, input_feed, coverage
    beam,           \* per example: done(), get_current_origin(), #advances
    beam_copy_attn, \* the local of that name: None or set
    n_dec,          \* number of decoder runs of this call
    upd,            \* per example: number of beam_update calls
    last_positions, \* per example: positions of the last beam_update
    seen_done,      \* per example: done() has returned true
    d_cfg,          \* the decoder's options and the batch sizes of its arguments
    d_tgt,          \* the target tokens fed to the decoder, one batch column
    d_attn,         \* what the attention returns at each target position
    d_pc,           \* "ready", or "aborted" after a failed check
    d_pos,          \* number of target tokens consumed so far
    d_state,        \* the RNNDecoderState threaded through the forward calls
    d_calls,        \* tgt_len of every forward call so far
    d_in,           \* decoder_input of every step so far
    d_out,          \* the decoder outputs returned so far
    d_attns,        \* the attention traces returned so far, per key
    d_ret,          \* the attns mapping returned by the last forward call
    r_cfg,          \* translate: report_score, and whether tgt_path is given
    r_pc,           \* position of translate
    r_left,         \* translations still to come out of the batches
    pred_score_total,
    pred_words_total,
    gold_score_total,
    gold_words_total,
    r_out,          \* what _report_score has printed
    b_cfg,          \* the Translator options that reach the Beam and the loop
    b_model,        \* the trained model: last token -> next-token scores
    b_pc,           \* position of translate_batch in the decode of one example
    b_i,            \* loop variable of "for i in range(self.max_length)"
    b_beam,         \* the Beam of the example
    b_ret,          \* what _from_beam returns for the example
    p_args,         \* the arguments of the function being applied
    p_pc,           \* "call" before the function is applied, "done" after
    p_ret,          \* what the function has returned
    h_cfg,          \* model type, max_length and number of batches of a translate
    h_pc,           \* position of translate_batch in the current batch
    h_batch,        \* number of the batch being translated
    h_i,            \* decoder steps run on the current batch
    h_resets,       \* init_attn_history calls of the current translate_batch call
    h_since         \* decoder steps run since the last init_attn_history

tvars == <<cfg, pc, i, j, raw_inp, inp, dec_states, beam, beam_copy_attn,
           n_dec, upd, last_positions, seen_done>>

dvars == <<d_cfg, d_tgt, d_attn, d_pc, d_pos, d_state, d_calls, d_in, d_out,
           d_attns, d_ret>>

rvars == <<r_cfg, r_pc, r_left, pred_score_total, pred_words_total,
           gold_score_total, gold_words_total, r_out>>

bvars == <<b_cfg, b_model, b_pc, b_i, b_beam, b_ret>>

pvars == <<p_args, p_pc, p_ret>>

\* the variables outside translate_batch, the decoder, the report and the Beam
hvars == <<h_cfg, h_pc, h_batch, h_i, h_resets, h_since>>

xvars == <<pvars, hvars>>

vars == <<tvars, dvars, rvars, bvars, xvars>>

\* ----------------------------------------------------------------- tensors
Size(e) == Cardinality(DOMAIN e)

Tokens == 0 .. (VocabSize + MaxExtra - 1)

\* a freshly computed tensor of batch dimension n: column f holds the term
\* <<kind, step, f>>
Fresh(kind, step, n) == [f \in 0 .. (n - 1) |-> <<kind, step, f>>]

\* RNNDecoderState._all: the tensors beam_update reindexes
All(state) == state.hidden \o <<state.input_feed>>

\* RNNDecoderState.__init__ on the encoder's final state of batch size n
InitDecoderState(n, lstm) ==
    [hidden |-> IF lstm THEN <<Fresh("enc_h", 0, n), Fresh("enc_c", 0, n)>>
                ELSE <<Fresh("enc_h", 0, n)>>,
     input_feed |-> [f \in 0 .. (n - 1) |-> <<"zero">>],
     coverage |-> None]

\* the tensor left untiled
RepeatTensorOnce(e, beam_size) == e

\* e.data.repeat(1, beam_size, 1): tile the batch dimension
RepeatTensor(e, beam_size) ==
    [f \in 0 .. (Size(e) * beam_size - 1) |-> e[f % Size(e)]]

\* RNNDecoderState.repeat_beam_size_times
RepeatBeamSizeTimes(state, beam_size) ==
    LET tiled == [n \in 1 .. Len(All(state)) |->
                    RepeatTensor(All(state)[n], beam_size)]
    IN [state EXCEPT !.hidden = SubSeq(tiled, 1, Len(tiled) - 1),
                     !.input_feed = tiled[Len(tiled)]]

\* an update that leaves the input feed as it was
UpdateStateKeepFeed(state, rnnstate, input_feed, coverage) ==
    [hidden |-> rnnstate, input_feed |-> state.input_feed, coverage |-> coverage]

\* RNNDecoderState.update_state
UpdateState(state, rnnstate, input_feed, coverage) ==
    [hidden |-> rnnstate, input_feed |-> input_feed, coverage |-> coverage]

\* a batch-major layout of the same view
ViewIndexBatchMajor(k, idx, br, beam_size) == idx * beam_size + k

\* the slots of e.view(sizes[0], beam_size, br // beam_size, sizes[2])[:, :, idx]
ViewIndex(k, idx, br, beam_size) == k * (br \div beam_size) + idx

\* a slot-by-slot copy through the view, whose later reads see earlier writes
BeamUpdateInPlace(e, idx, positions, beam_size) ==
    LET br == Size(e)
        RECURSIVE Go(_, _)
        Go(t, k) ==
            IF k = beam_size THEN t
            ELSE Go([t EXCEPT ![ViewIndex(k, idx, br, beam_size)] =
                        t[ViewIndex(positions[k], idx, br, beam_size)]],
                    k + 1)
    IN Go(e, 0)

\* sent_states.data.copy_(sent_states.data.index_select(1, positions)) on
\* one tensor: index_select builds a new tensor from the pre-call values,
\* copy_ writes it through the view
BeamUpdateTensor(e, idx, positions, beam_size) ==
    LET br == Size(e)
        sent_states == [k \in 0 .. (beam_size - 1) |->
                           e[ViewIndex(k, idx, br, beam_size)]]
        selected == [k \in 0 .. (beam_size - 1) |-> sent_states[positions[k]]]
        written == {ViewIndex(k, idx, br, beam_size) : k \in 0 .. (beam_size - 1)}
    IN [f \in DOMAIN e |->
          IF f \in written
          THEN selected[CHOOSE k \in 0 .. (beam_size - 1) :
                            ViewIndex(k, idx, br, beam_size) = f]
          ELSE e[f]]

\* DecoderState.beam_update: every tensor of _all, and only those
BeamUpdate(state, idx, positions, beam_size) ==
    LET all == All(state)
        new == [n \in 1 .. Len(all) |->
                   BeamUpdateTensor(all[n], idx, positions, beam_size)]
    IN [state EXCEPT !.hidden = SubSeq(new, 1, Len(new) - 1),
                     !.input_feed = new[Len(new)]]

\* the view and the index of beam_update are defined
BeamUpdateDefined(state, idx, beam_size) ==
    \A n \in 1 .. Len(All(state)) :
        /\ Size(All(state)[n]) % beam_size = 0
        /\ idx < Size(All(state)[n]) \div beam_size

\* ------------------------------------------------------- translate_batch
\* the stacked states flattened without the transposition
StackInputBatchMajor(states, batch_size, beam_size) ==
    [f \in 0 .. (batch_size * beam_size - 1) |->
        states[f \div beam_size][f % beam_size]]

\* torch.stack([b.get_current_state() for b in beam]).t().contiguous().view(1, -1)
StackInput(states, batch_size, beam_size) ==
    [f \in 0 .. (batch_size * beam_size - 1) |->
        states[f % batch_size][f \div batch_size]]

\* the mask taken with inp.gt(len(vocab))
MaskedFillOffByOne(t, vocab_len) ==
    [f \in DOMAIN t |-> IF t[f] > vocab_len THEN UNK ELSE t[f]]

\* inp.masked_fill(inp.gt(len(vocab) - 1), 0)
MaskedFill(t, vocab_len) ==
    [f \in DOMAIN t |-> IF t[f] > vocab_len - 1 THEN UNK ELSE t[f]]

\* a loop that never breaks early
AllDoneNever(b) == FALSE

\* all((b.done() for b in beam))
AllDone(b) == \A n \in DOMAIN b : b[n].done

\* the beams whose done() the generator of "all" actually calls: it stops
\* at the first beam that is not done
DoneCalled(b) == {n \in DOMAIN b : \A m \in DOMAIN b : m < n => b[m].done}

Configs ==
    {c \in [batch_size : 1 .. MaxBatch,
            beam_size : 1 .. MaxBeam,
            max_length : 0 .. MaxLength,
            model_type : {"text", "hierarchical_text"},
            copy_attn : BOOLEAN,
            coverage_attn : BOOLEAN,
            lstm : BOOLEAN] :
        c.batch_size * c.beam_size <= MaxSlots}

Examples == 0 .. (cfg.batch_size - 1)
Slots == 0 .. (cfg.beam_size - 1)

\* the state of translate_batch after the encoder ran and
\* init_decoder_state built the DecoderState
TInit ==
    /\ cfg \in Configs
    /\ pc = "repeat"
    /\ i = 0
    /\ j = 0
    /\ raw_inp = <<>>
    /\ inp = <<>>
    /\ dec_states = InitDecoderState(cfg.batch_size, cfg.lstm)
    /\ beam = [n \in 0 .. (cfg.batch_size - 1) |->
                 [done |-> FALSE,
                  prev_ks |-> [k \in 0 .. (cfg.beam_size - 1) |-> 0],
                  steps |-> 0]]
    /\ beam_copy_attn = None
    /\ n_dec = 0
    /\ upd = [n \in 0 .. (cfg.batch_size - 1) |-> 0]
    /\ last_positions = [n \in 0 .. (cfg.batch_size - 1) |-> None]
    /\ seen_done = [n \in 0 .. (cfg.batch_size - 1) |-> FALSE]

\* translate_batch is not running
TIdle ==
    /\ cfg = [batch_size |-> 1, beam_size |-> 1, max_length |-> 0,
              model_type |-> "text", copy_attn |-> FALSE,
              coverage_attn |-> FALSE, lstm |-> FALSE]
    /\ pc = "idle"
    /\ i = 0
    /\ j = 0
    /\ raw_inp = <<>>
    /\ inp = <<>>
    /\ dec_states = InitDecoderState(1, FALSE)
    /\ beam = <<>>
    /\ beam_copy_attn = None
    /\ n_dec = 0
    /\ upd = <<>>
    /\ last_positions = <<>>
    /\ seen_done = <<>>

\* dec_states.repeat_beam_size_times(beam_size)
Repeat ==
    /\ pc = "repeat"
    /\ dec_states' = RepeatBeamSizeTimes(dec_states, cfg.beam_size)
    /\ pc' = "for"
    /\ UNCHANGED <<dvars, rvars, bvars, xvars, cfg, i, j, raw_inp, inp, beam, beam_copy_attn, n_dec, upd,
                   last_positions, seen_done>>

\* for i in range(self.max_length): if all(b.done() ...): break
LoopTest ==
    /\ pc = "for"
    /\ IF i >= cfg.max_length
       THEN /\ pc' = "from_beam"
            /\ UNCHANGED seen_done
       ELSE /\ seen_done' = [n \in DOMAIN beam |->
                               seen_done[n] \/ (n \in DoneCalled(beam) /\ beam[n].done)]
            /\ pc' = IF AllDone(beam) THEN "from_beam" ELSE "stack"
    /\ UNCHANGED <<dvars, rvars, bvars, xvars, cfg, i, j, raw_inp, inp, dec_states, beam, beam_copy_attn,
                   n_dec, upd, last_positions>>

\* inp = var(torch.stack([b.get_current_state() for b in beam]) ...), the
\* beams holding tokens of the set T
GetInputOf(T) ==
    /\ pc = "stack"
    /\ \E states \in [Examples -> [Slots -> T]] :
          /\ raw_inp' = StackInput(states, cfg.batch_size, cfg.beam_size)
          /\ inp' = raw_inp'
    /\ pc' = "mask"
    /\ UNCHANGED <<dvars, rvars, bvars, xvars, cfg, i, j, dec_states, beam, beam_copy_attn, n_dec, upd,
                   last_positions, seen_done>>

\* the beams hold one copied out-of-vocabulary token in every slot
GetInput == GetInputOf({VocabSize})

\* the beams hold any tokens of the extended vocabulary
GetInputTokens == GetInputOf(Tokens)

\* if self.copy_attn: inp = inp.masked_fill(...)
MaskInput ==
    /\ pc = "mask"
    /\ inp' = IF cfg.copy_attn THEN MaskedFill(inp, VocabSize) ELSE inp
    /\ pc' = "decoder"
    /\ UNCHANGED <<dvars, rvars, bvars, xvars, cfg, i, j, raw_inp, dec_states, beam, beam_copy_attn, n_dec,
                   upd, last_positions, seen_done>>

\* the coverage the decoder's forward stores: coverage + p_attn, or p_attn
\* when no coverage existed; a sum is the sequence of its summands
NextCoverage(coverage, p_attn) ==
    IF coverage = None THEN Some([f \in DOMAIN p_attn |-> <<p_attn[f]>>])
    ELSE Some([f \in DOMAIN p_attn |-> Append(coverage[1][f], p_attn[f])])

\* dec_out, dec_states, attn = self.model.decoder(inp, memory_bank, dec_states, ...)
\* and the choice of beam_copy_attn that follows it
RunDecoder ==
    /\ pc = "decoder"
    /\ LET tgt_batch == Size(inp)
           memory_batch == cfg.batch_size * cfg.beam_size
           input_feed_batch == Size(dec_states.input_feed)
       IN IF tgt_batch # memory_batch \/ tgt_batch # input_feed_batch
          THEN /\ pc' = "aborted"
               /\ UNCHANGED <<dec_states, n_dec, beam_copy_attn>>
          ELSE /\ dec_states' =
                    UpdateState(dec_states,
                        IF cfg.lstm
                        THEN <<Fresh("h", i + 1, tgt_batch), Fresh("c", i + 1, tgt_batch)>>
                        ELSE <<Fresh("h", i + 1, tgt_batch)>>,
                        Fresh("out", i + 1, tgt_batch),
                        IF cfg.coverage_attn
                        THEN NextCoverage(dec_states.coverage,
                                          Fresh("attn", i + 1, tgt_batch))
                        ELSE None)
               /\ n_dec' = n_dec + 1
               /\ beam_copy_attn' =
                    IF cfg.model_type = "hierarchical_text" THEN Some("context") ELSE None
               /\ pc' = "advance"
    /\ j' = 0
    /\ inp' = <<>>
    /\ raw_inp' = <<>>
    /\ UNCHANGED <<dvars, rvars, bvars, xvars, cfg, i, beam, upd, last_positions, seen_done>>

\* the advance of beam j with its reindex left out
AdvanceWithoutReindex ==
    /\ pc = "advance"
    /\ IF ~cfg.copy_attn /\ beam_copy_attn = None
       THEN /\ pc' = "aborted"
            /\ UNCHANGED <<beam, i, j>>
       ELSE /\ \E origin \in [Slots -> Slots], d \in BOOLEAN :
                  beam' = [beam EXCEPT ![j] =
                              [done |-> d,
                               prev_ks |-> origin,
                               steps |-> beam[j].steps + 1]]
            /\ IF j + 1 < cfg.batch_size
               THEN /\ j' = j + 1
                    /\ i' = i
                    /\ pc' = "advance"
               ELSE /\ j' = j
                    /\ i' = i + 1
                    /\ pc' = "for"
    /\ UNCHANGED <<dvars, rvars, bvars, xvars, cfg, raw_inp, inp, dec_states, beam_copy_attn, n_dec,
                   upd, last_positions, seen_done>>

\* b.advance(out[:, j], beam_attn..., context_attn_out = beam_copy_attn.data[:,j,:]),
\* the beam choosing its backpointers in the set O
AdvanceOf(O) ==
    /\ pc = "advance"
    /\ IF ~cfg.copy_attn /\ beam_copy_attn = None
       THEN /\ pc' = "aborted"
            /\ UNCHANGED beam
       ELSE /\ \E origin \in O, d \in BOOLEAN :
                  beam' = [beam EXCEPT ![j] =
                              [done |-> d,
                               prev_ks |-> origin,
                               steps |-> beam[j].steps + 1]]
            /\ pc' = "beam_update"
    /\ UNCHANGED <<dvars, rvars, bvars, xvars, cfg, i, j, raw_inp, inp, dec_states, beam_copy_attn, n_dec,
                   upd, last_positions, seen_done>>

\* every slot may descend from any slot
Advance == AdvanceOf([Slots -> Slots])

\* every slot descends from itself
AdvanceInPlace == AdvanceOf({[k \in Slots |-> k]})

\* dec_states.beam_update(j, b.get_current_origin(), beam_size)
Reindex ==
    /\ pc = "beam_update"
    /\ IF ~BeamUpdateDefined(dec_states, j, cfg.beam_size)
       THEN /\ pc' = "aborted"
            /\ UNCHANGED <<dec_states, upd, last_positions, i, j>>
       ELSE /\ dec_states' = BeamUpdate(dec_states, j, beam[j].prev_ks, cfg.beam_size)
            /\ upd' = [upd EXCEPT ![j] = upd[j] + 1]
            /\ last_positions' = [last_positions EXCEPT ![j] = Some(beam[j].prev_ks)]
            /\ IF j + 1 < cfg.batch_size
               THEN /\ j' = j + 1
                    /\ i' = i
                    /\ pc' = "advance"
               ELSE /\ j' = j
                    /\ i' = i + 1
                    /\ pc' = "for"
    /\ UNCHANGED <<dvars, rvars, bvars, xvars, cfg, raw_inp, inp, beam, beam_copy_attn, n_dec, seen_done>>

\* ret = self._from_beam(beam) ... return ret
FromBeam ==
    /\ pc = "from_beam"
    /\ pc' = "returned"
    /\ UNCHANGED <<dvars, rvars, bvars, xvars, cfg, i, j, raw_inp, inp, dec_states, beam, beam_copy_attn,
                   n_dec, upd, last_positions, seen_done>>

\* ------------------------------------------- the input-feeding decoder
\* One batch column of the decoder's tensors is modelled; the batch sizes
\* of the arguments of a call are numbers, compared by the checks.
\* the decoder is fed ids of the fixed vocabulary: its first and its last
DecTokens == {UNK, VocabSize - 1}

\* the attention puts its whole mass, 1, on one source position: the
\* first or the last
AttnDists == {[s \in 1 .. SrcLen |-> IF s = at THEN 1 ELSE 0] : at \in {1, SrcLen}}

Zero == <<"zero">>

\* the batch sizes a tensor handed to the decoder may have
BatchSizes == {1, MaxBatch}

\* the decoder's options, and the batch size of the state it is given
DecConfigs ==
    [coverage : BOOLEAN,
     copy : BOOLEAN,
     context_gate : BOOLEAN,
     state_batch : BatchSizes]

\* RNNDecoderState.__init__: the encoder's final state, no coverage, an
\* all-zero input feed
InitColumnState ==
    [hidden |-> <<"enc_final">>, input_feed |-> Zero, coverage |-> None]

\* the coverage update with the running sum dropped
AddCoverageOverwrite(coverage, p_attn) == p_attn

\* coverage = coverage + p_attn if coverage is not None else p_attn
AddCoverage(coverage, p_attn) ==
    IF coverage # None
    THEN [s \in DOMAIN p_attn |-> coverage[1][s] + p_attn[s]]
    ELSE p_attn

\* input_feed = decoder_output, the output taken before the dropout
FeedBeforeDropout(decoder_output, undropped) == undropped

\* input_feed = decoder_output
NextInputFeed(decoder_output, undropped) == decoder_output

\* one turn of "for i, emb_t in enumerate(emb.split(1))": the locals after it
ForwardStep(c, hidden, input_feed, coverage, tok, p_attn) ==
    LET emb_t == <<"emb", tok>>
        decoder_input == <<"cat", emb_t, input_feed>>
        rnn_output == <<"rnn_out", decoder_input, hidden>>
        attended == <<"attn_out", rnn_output>>
        gated == IF c.context_gate
                 THEN <<"gate", decoder_input, rnn_output, attended>>
                 ELSE attended
        decoder_output == <<"dropout", gated>>
    IN [hidden |-> <<"rnn_h", decoder_input, hidden>>,
        input_feed |-> NextInputFeed(decoder_output, gated),
        decoder_input |-> decoder_input,
        decoder_output |-> decoder_output,
        p_attn |-> p_attn,
        coverage |-> IF c.coverage THEN Some(AddCoverage(coverage, p_attn))
                     ELSE coverage]

\* InputFeedRNNDecoder._run_forward_pass on the tokens tgt, whose first
\* token is at target position first: hidden, decoder_outputs, attns, and
\* the decoder_input of every step
RECURSIVE RunForwardPassFrom(_, _, _, _, _)
RunForwardPassFrom(c, acc, tgt, first, attn) ==
    IF tgt = <<>> THEN acc
    ELSE LET r == ForwardStep(c, acc.hidden, acc.input_feed, acc.coverage,
                              Head(tgt), attn[first])
         IN RunForwardPassFrom(c,
                [hidden |-> r.hidden,
                 input_feed |-> r.input_feed,
                 coverage |-> r.coverage,
                 decoder_inputs |-> Append(acc.decoder_inputs, r.decoder_input),
                 decoder_outputs |-> Append(acc.decoder_outputs, r.decoder_output),
                 std |-> Append(acc.std, r.p_attn),
                 cov |-> IF c.coverage THEN Append(acc.cov, r.coverage[1])
                         ELSE acc.cov],
                Tail(tgt), first + 1, attn)

RunForwardPass(c, state, tgt, first, attn) ==
    RunForwardPassFrom(c,
        [hidden |-> state.hidden, input_feed |-> state.input_feed,
         coverage |-> state.coverage, decoder_inputs |-> <<>>,
         decoder_outputs |-> <<>>, std |-> <<>>, cov |-> <<>>],
        tgt, first, attn)

\* the keys of the attns dictionary of _run_forward_pass
AttnKeys(c) ==
    {"std"} \cup (IF c.copy THEN {"copy"} ELSE {})
            \cup (IF c.coverage THEN {"coverage"} ELSE {})

\* the traces of one call with attns["copy"] left as it was created
AttnsOfCopyUnfilled(c, r) ==
    [key \in AttnKeys(c) |->
        IF key = "coverage" THEN r.cov ELSE IF key = "copy" THEN <<>> ELSE r.std]

\* the traces of one call: attns["copy"] is the list attns["std"]
AttnsOf(c, r) ==
    [key \in AttnKeys(c) |-> IF key = "coverage" THEN r.cov ELSE r.std]

\* the state before the first forward call of a decode
DInit ==
    /\ d_cfg \in DecConfigs
    /\ d_tgt \in UNION {[1 .. n -> DecTokens] : n \in 1 .. MaxTgt}
    /\ d_attn \in [1 .. Len(d_tgt) -> AttnDists]
    /\ d_pc = "ready"
    /\ d_pos = 0
    /\ d_state = InitColumnState
    /\ d_calls = <<>>
    /\ d_in = <<>>
    /\ d_out = <<>>
    /\ d_attns = [key \in AttnKeys(d_cfg) |-> <<>>]
    /\ d_ret = None

\* no decoder call is in progress
DIdle ==
    /\ d_cfg = [coverage |-> FALSE, copy |-> FALSE, context_gate |-> FALSE,
                state_batch |-> 1]
    /\ d_tgt = <<>>
    /\ d_attn = <<>>
    /\ d_pc = "idle"
    /\ d_pos = 0
    /\ d_state = InitColumnState
    /\ d_calls = <<>>
    /\ d_in = <<>>
    /\ d_out = <<>>
    /\ d_attns = <<>>
    /\ d_ret = None

\* aeq(tgt_batch, memory_batch) of forward alone
MemoryBatchAgrees(tgt_batch, memory_batch, input_feed_batch) ==
    tgt_batch = memory_batch

\* aeq(tgt_batch, memory_batch) of forward and aeq(tgt_batch,
\* input_feed_batch) of _run_forward_pass
BatchSizesAgree(tgt_batch, memory_batch, input_feed_batch) ==
    tgt_batch = memory_batch /\ tgt_batch = input_feed_batch

\* RNNDecoderBase.forward on the next tgt_len target tokens, the state of
\* the previous call threaded in; tgt has tgt_batch columns and the memory
\* bank memory_batch columns
ForwardCall(tgt_len, tgt_batch, memory_batch) ==
    /\ d_pc = "ready"
    /\ d_pos < Len(d_tgt)
    /\ tgt_len \in 1 .. (Len(d_tgt) - d_pos)
    /\ IF ~BatchSizesAgree(tgt_batch, memory_batch, d_cfg.state_batch)
       THEN /\ d_pc' = "aborted"
            /\ UNCHANGED <<d_pos, d_state, d_calls, d_in, d_out, d_attns, d_ret>>
       ELSE LET r == RunForwardPass(d_cfg, d_state,
                         SubSeq(d_tgt, d_pos + 1, d_pos + tgt_len),
                         d_pos + 1, d_attn)
                attns == AttnsOf(d_cfg, r)
                final_output == r.decoder_outputs[Len(r.decoder_outputs)]
                coverage == IF "coverage" \in DOMAIN attns
                            THEN Some(attns["coverage"][Len(attns["coverage"])])
                            ELSE None
            IN /\ d_state' = UpdateState(d_state, r.hidden, final_output, coverage)
               /\ d_pos' = d_pos + tgt_len
               /\ d_calls' = Append(d_calls, tgt_len)
               /\ d_in' = d_in \o r.decoder_inputs
               /\ d_out' = d_out \o r.decoder_outputs
               /\ d_attns' = [key \in DOMAIN d_attns |-> d_attns[key] \o attns[key]]
               /\ d_ret' = Some(attns)
               /\ d_pc' = "ready"
    /\ UNCHANGED <<tvars, rvars, bvars, xvars, d_cfg, d_tgt, d_attn>>

Forward ==
    \E tgt_len \in 1 .. MaxTgt, tgt_batch \in BatchSizes, memory_batch \in BatchSizes :
        ForwardCall(tgt_len, tgt_batch, memory_batch)

\* ------------------------------------------------------------- the Beam
\* Token ids: the words 0 .. NumWords-1, then the terminal symbol, then the
\* start symbol. Scores are integers (log-probabilities in some unit).
EOS == NumWords
BOS == NumWords + 1
OutTokens == 0 .. NumWords

\* minus infinity: below every sum of BeamMaxLength log-probabilities
NegInf == -(2 * BeamMaxLength + 1)

\* addition of scores, minus infinity absorbing
Plus(x, y) == IF x = NegInf \/ y = NegInf THEN NegInf ELSE x + y

Range(f) == {f[x] : x \in DOMAIN f}

\* a new Beam: every slot holds the start symbol with score 0
NewBeam(size, n_best, min_length, block_ngram_repeat, exclusion_tokens) ==
    [size |-> size,
     n_best |-> n_best,
     min_length |-> min_length,
     block_ngram_repeat |-> block_ngram_repeat,
     exclusion_tokens |-> exclusion_tokens,
     scores |-> [k \in 0 .. (size - 1) |-> 0],
     next_ys |-> <<[k \in 0 .. (size - 1) |-> BOS]>>,
     prev_ks |-> <<>>,
     finished |-> <<>>]

\* get_current_state(): the last token of every slot
GetCurrentState(b) == b.next_ys[Len(b.next_ys)]

\* get_current_origin(): the parent slot of every slot
GetCurrentOrigin(b) == b.prev_ks[Len(b.prev_ks)]

\* get_hyp(step, slot): the tokens of a hypothesis, found by walking the
\* backpointers from slot k of step timestep
RECURSIVE GetHyp(_, _, _)
GetHyp(b, timestep, k) ==
    IF timestep = 0 THEN <<>>
    ELSE Append(GetHyp(b, timestep - 1, b.prev_ks[timestep][k]),
                b.next_ys[timestep + 1][k])

\* the n-gram that extending hyp with tok would end in repeats one that hyp
\* already holds, and none of its tokens is in the exclusion set
NgramBlocked(hyp, tok, n, exclusion_tokens) ==
    /\ n > 0
    /\ Len(hyp) >= n
    /\ LET gram == SubSeq(hyp, Len(hyp) - n + 2, Len(hyp)) \o <<tok>>
       IN /\ Range(gram) \cap exclusion_tokens = {}
          /\ \E at \in 1 .. (Len(hyp) - n + 1) : SubSeq(hyp, at, at + n - 1) = gram

\* the score of extending slot k with tok: the slot's score plus the
\* log-probability, or minus infinity for an extension of a hypothesis that
\* ended, for the terminal symbol before min_length, and for a blocked n-gram
Candidate(b, word_probs, k, tok) ==
    LET hyp == GetHyp(b, Len(b.prev_ks), k)
    IN IF GetCurrentState(b)[k] = EOS THEN NegInf
       ELSE IF tok = EOS /\ Len(hyp) < b.min_length THEN NegInf
       ELSE IF NgramBlocked(hyp, tok, b.block_ngram_repeat, b.exclusion_tokens)
            THEN NegInf
       ELSE Plus(b.scores[k], word_probs[k][tok])

\* GlobalScorer.score with the default penalties ("none"): the score as is
GlobalScore(score) == score

\* the slot a flat index of the beam_size x num_words score matrix names,
\* taken for its token
OriginByToken(flat, num_words) == flat % num_words

\* the slot a flat index of the beam_size x num_words score matrix names
OriginOf(flat, num_words) == flat \div num_words

\* the size best flat indices, left in the order of the matrix
TopKUnsorted(scf, size) ==
    LET Beats(q, p) == scf[q] > scf[p] \/ (scf[q] = scf[p] /\ q < p)
        top == {p \in DOMAIN scf : Cardinality({q \in DOMAIN scf : Beats(q, p)}) < size}
    IN [r \in 0 .. (size - 1) |->
           CHOOSE p \in top : Cardinality({q \in top : q < p}) = r]

\* the size best flat indices by score, best first, equal scores in the
\* order of the matrix (earlier slot, then smaller token id)
TopK(scf, size) ==
    LET Beats(q, p) == scf[q] > scf[p] \/ (scf[q] = scf[p] /\ q < p)
    IN [r \in 0 .. (size - 1) |->
           CHOOSE p \in DOMAIN scf : Cardinality({q \in DOMAIN scf : Beats(q, p)}) = r]

\* the beam after the flat indices best were selected by the scores scf:
\* scores, backpointers and tokens of the new step, and a finished entry
\* for every slot that took the terminal symbol
BeamSelect(b, scf, best) ==
    LET num_words == NumWords + 1
        next_y == [r \in 0 .. (b.size - 1) |-> best[r] % num_words]
        slots == [x \in 1 .. b.size |-> x - 1]
        ended == SelectSeq(slots, LAMBDA r : next_y[r] = EOS)
    IN [b EXCEPT
           !.scores = [r \in 0 .. (b.size - 1) |-> scf[best[r]]],
           !.prev_ks = Append(b.prev_ks,
                              [r \in 0 .. (b.size - 1) |-> OriginOf(best[r], num_words)]),
           !.next_ys = Append(b.next_ys, next_y),
           !.finished = b.finished \o
               [x \in 1 .. Len(ended) |->
                   [score |-> GlobalScore(scf[best[ended[x]]]),
                    step |-> Len(b.prev_ks) + 1,
                    slot |-> ended[x]]]]

\* advance(word_probs): the beam after one step on the scores word_probs,
\* one row per slot (the candidate scores and the selection are each
\* computed once and bound)
BeamAdvance(b, word_probs) ==
    LET num_words == NumWords + 1
        new == {BeamSelect(b, scf, best) :
                   <<scf, best>> \in
                       {<<f, TopK(f, b.size)>> :
                           f \in {[x \in 0 .. (b.size * num_words - 1) |->
                                     Candidate(b, word_probs, x \div num_words,
                                               x % num_words)]}}}
    IN CHOOSE nb \in new : TRUE

\* a sequence of finished entries, best score first, equal scores in the
\* order they were finished
SortByScore(fin) ==
    LET Before(x, y) == fin[x].score > fin[y].score
                        \/ (fin[x].score = fin[y].score /\ x < y)
    IN [r \in 1 .. Len(fin) |->
           fin[CHOOSE y \in 1 .. Len(fin) :
                   Cardinality({x \in 1 .. Len(fin) : Before(x, y)}) = r - 1]]

\* the slots whose hypothesis has not emitted the terminal symbol
LiveSlots(b) == {k \in 0 .. (b.size - 1) : GetCurrentState(b)[k] # EOS}

\* done(): at least n_best hypotheses are finished and no live hypothesis
\* can still score above the n_best-th of them
BeamDone(b) ==
    /\ Len(b.finished) >= b.n_best
    /\ \A k \in LiveSlots(b) : b.scores[k] <= SortByScore(b.finished)[b.n_best].score

\* sort_finished(minimum): while fewer than minimum hypotheses are
\* finished, the live ones are closed as they are, in slot order; the
\* scores and the (step, slot) keys of all finished ones, best first
SortFinished(b, minimum) ==
    LET slots == [x \in 1 .. b.size |-> x - 1]
        live == SelectSeq(slots, LAMBDA k : k \in LiveSlots(b))
        missing == IF Len(b.finished) >= minimum THEN 0
                   ELSE IF minimum - Len(b.finished) > Len(live) THEN Len(live)
                   ELSE minimum - Len(b.finished)
        closed == [x \in 1 .. missing |->
                      [score |-> GlobalScore(b.scores[live[x]]),
                       step |-> Len(b.prev_ks),
                       slot |-> live[x]]]
        sorted == SortByScore(b.finished \o closed)
    IN [scores |-> [x \in 1 .. Len(sorted) |-> sorted[x].score],
        ks |-> [x \in 1 .. Len(sorted) |-> <<sorted[x].step, sorted[x].slot>>]]

\* ------------------------------------------- the decode of one example
\* the options of the Translator that reach the Beam and the decode loop
BeamConfigs ==
    {c \in [beam_size : 1 .. MaxBeam,
            n_best : 1 .. MaxBeam,
            min_length : {0, 1, BeamMaxLength},
            block_ngram_repeat : 0 .. MaxNgram,
            exclusion_tokens : {{}, {0}},
            max_length : {BeamMaxLength}] :
        /\ c.n_best <= c.beam_size
        /\ c.block_ngram_repeat = 0 => c.exclusion_tokens = {}}

\* the scores of the next token: one token is likely, the others are not
Rows == {[t \in OutTokens |-> IF t = likely THEN -1 ELSE -2] : likely \in OutTokens}

\* decoder and generator: the scores of the next token, given the token fed
Models == [(0 .. (NumWords - 1)) \cup {BOS} -> Rows]

\* the scores of a model that is fed the start symbol at every step,
\* whatever the last tokens of the beam
WordProbsOfStart(model, tokens) == [k \in DOMAIN tokens |-> model[BOS]]

\* tokens is get_current_state(), fed as inp; out[:, j] holds, for every
\* slot, the scores the model gives after the token of that slot
WordProbs(model, tokens) ==
    [k \in DOMAIN tokens |->
        IF tokens[k] \in DOMAIN model THEN model[tokens[k]] ELSE model[BOS]]

\* the Beam constructed without block_ngram_repeat
BeamOfWithoutBlocking(c) ==
    NewBeam(c.beam_size, c.n_best, c.min_length, 0, c.exclusion_tokens)

\* onmt.translate.Beam(beam_size, n_best=self.n_best, ...)
BeamOf(c) ==
    NewBeam(c.beam_size, c.n_best, c.min_length, c.block_ngram_repeat,
            c.exclusion_tokens)

\* the loop leaving one step early
LoopStopsEarly(k, max_length, done) == k < max_length - 1 /\ ~done

\* "for i in range(self.max_length)" with its break
LoopContinues(k, max_length, done) == k < max_length /\ ~done

\* _from_beam for one beam: the n_best first keys of sort_finished, the
\* hypothesis and the attention of each; scores is the list sort_finished
\* returned
FromBeamOf(b, n_best) ==
    LET sf == SortFinished(b, n_best)
        ks == SubSeq(sf.ks, 1, IF Len(sf.ks) < n_best THEN Len(sf.ks) ELSE n_best)
    IN [predictions |-> [x \in 1 .. Len(ks) |-> GetHyp(b, ks[x][1], ks[x][2])],
        scores |-> sf.scores,
        attention |-> [x \in 1 .. Len(ks) |-> <<"attn", ks[x][1], ks[x][2]>>],
        context_attention |-> [x \in 1 .. Len(ks) |-> <<"context_attn", ks[x][1], ks[x][2]>>]]

\* translate_batch after the beams were built
BInit ==
    /\ b_cfg \in BeamConfigs
    /\ b_model \in Models
    /\ b_pc = "loop"
    /\ b_i = 0
    /\ b_beam = BeamOf(b_cfg)
    /\ b_ret = None

\* no example is being decoded
BIdle ==
    /\ b_cfg = [beam_size |-> 1, n_best |-> 1, min_length |-> 0,
                block_ngram_repeat |-> 0, exclusion_tokens |-> {}, max_length |-> 0]
    /\ b_model = <<>>
    /\ b_pc = "idle"
    /\ b_i = 0
    /\ b_beam = <<>>
    /\ b_ret = None

\* one turn of the decode loop: the current tokens go through the model
\* and the beam advances on the scores
BeamStep ==
    /\ b_pc = "loop"
    /\ LoopContinues(b_i, b_cfg.max_length, BeamDone(b_beam))
    /\ b_beam' = BeamAdvance(b_beam, WordProbs(b_model, GetCurrentState(b_beam)))
    /\ b_i' = b_i + 1
    /\ UNCHANGED <<tvars, dvars, rvars, xvars, b_cfg, b_model, b_pc, b_ret>>

\* the loop is left: ret = self._from_beam(beam)
BeamFromBeam ==
    /\ b_pc = "loop"
    /\ ~LoopContinues(b_i, b_cfg.max_length, BeamDone(b_beam))
    /\ b_ret' = Some(FromBeamOf(b_beam, b_cfg.n_best))
    /\ b_pc' = "returned"
    /\ UNCHANGED <<tvars, dvars, rvars, xvars, b_cfg, b_model, b_i, b_beam>>

BeamNext == BeamStep \/ BeamFromBeam

\* the index torch.max returns: the first token with the highest score
ArgMax(row) ==
    CHOOSE t \in DOMAIN row :
        \A u \in DOMAIN row : row[u] < row[t] \/ (row[u] = row[t] /\ u >= t)

\* greedy decoding: after the token last, the arg-max token of every step
\* until the terminal symbol or n tokens
RECURSIVE Greedy(_, _, _)
Greedy(model, last, n) ==
    IF n = 0 THEN <<>>
    ELSE LET t == ArgMax(model[last])
         IN IF t = EOS THEN <<EOS>> ELSE <<t>> \o Greedy(model, t, n - 1)

\* ------------------------------------------------ the report of translate
\* math.exp(x) raises OverflowError for every x above this
ExpLimit == 709

\* the score of one translation: a sum of log-probabilities, here none, one
\* nat, or so low that the perplexity of any total overflows
TranslationScores == {0, -1, -((ExpLimit + 1) * MaxWords * MaxTranslations)}

\* the statistics of translate before the first batch
RInit ==
    /\ r_cfg \in [report_score : BOOLEAN, tgt_path : BOOLEAN]
    /\ r_pc = "batches"
    /\ r_left \in 0 .. MaxTranslations
    /\ pred_score_total = 0
    /\ pred_words_total = 0
    /\ gold_score_total = 0
    /\ gold_words_total = 0
    /\ r_out = <<>>

\* translate is not running
RIdle ==
    /\ r_cfg = [report_score |-> FALSE, tgt_path |-> FALSE]
    /\ r_pc = "idle"
    /\ r_left = 0
    /\ pred_score_total = 0
    /\ pred_words_total = 0
    /\ gold_score_total = 0
    /\ gold_words_total = 0
    /\ r_out = <<>>

\* one turn of "for trans in translations"
AddTranslation ==
    /\ r_pc = "batches"
    /\ r_left > 0
    /\ \E pred_score \in TranslationScores, pred_len \in 0 .. MaxWords,
          gold_score \in TranslationScores, gold_len \in 0 .. MaxWords :
          /\ pred_score_total' = pred_score_total + pred_score
          /\ pred_words_total' = pred_words_total + pred_len
          /\ IF r_cfg.tgt_path
             THEN /\ gold_score_total' = gold_score_total + gold_score
                  /\ gold_words_total' = gold_words_total + gold_len + 1
             ELSE /\ gold_score = 0 /\ gold_len = 0
                  /\ UNCHANGED <<gold_score_total, gold_words_total>>
    /\ r_left' = r_left - 1
    /\ UNCHANGED <<tvars, dvars, bvars, xvars, r_cfg, r_pc, r_out>>

\* the batches are exhausted: "if self.report_score"
EndBatches ==
    /\ r_pc = "batches"
    /\ r_left = 0
    /\ r_pc' = IF r_cfg.report_score THEN "report_pred" ELSE "returned"
    /\ UNCHANGED <<tvars, dvars, bvars, xvars, r_cfg, r_left, pred_score_total, pred_words_total,
                   gold_score_total, gold_words_total, r_out>>

\* _report_score: the division raises ZeroDivisionError when words_total
\* is 0, math.exp raises OverflowError; "except OverflowError" catches the
\* second only
ReportScore(name, score_total, words_total) ==
    IF words_total = 0
    THEN [raised |-> TRUE, printed |-> <<>>]
    ELSE IF -score_total > ExpLimit * words_total
         THEN [raised |-> FALSE, printed |-> <<<<name, "Overflow occured">>>>]
         ELSE [raised |-> FALSE, printed |-> <<<<name, "AVG SCORE", "PPL">>>>]

\* self._report_score('PRED', pred_score_total, pred_words_total)
ReportPred ==
    /\ r_pc = "report_pred"
    /\ LET r == ReportScore("PRED", pred_score_total, pred_words_total)
       IN /\ r_out' = r_out \o r.printed
          /\ r_pc' = IF r.raised THEN "aborted"
                     ELSE IF r_cfg.tgt_path THEN "report_gold" ELSE "returned"
    /\ UNCHANGED <<tvars, dvars, bvars, xvars, r_cfg, r_left, pred_score_total, pred_words_total,
                   gold_score_total, gold_words_total>>

\* self._report_score('GOLD', gold_score_total, gold_words_total)
ReportGold ==
    /\ r_pc = "report_gold"
    /\ LET r == ReportScore("GOLD", gold_score_total, gold_words_total)
       IN /\ r_out' = r_out \o r.printed
          /\ r_pc' = IF r.raised THEN "aborted" ELSE "returned"
    /\ UNCHANGED <<tvars, dvars, bvars, xvars, r_cfg, r_left, pred_score_total, pred_words_total,
                   gold_score_total, gold_words_total>>

ReportNext == AddTranslation \/ EndBatches \/ ReportPred \/ ReportGold

\* no function is being applied
PIdle ==
    /\ p_args = None
    /\ p_pc = "idle"
    /\ p_ret = None

\* no sequence of batches is being translated
HIdle ==
    /\ h_cfg = None
    /\ h_pc = "idle"
    /\ h_batch = 0
    /\ h_i = 0
    /\ h_resets = 0
    /\ h_since = 0

XIdle == PIdle /\ HIdle

ReportInit == TIdle /\ DIdle /\ RInit /\ BIdle /\ XIdle

\* the statistics and the score report of one translate call
ReportSpec == ReportInit /\ [][ReportNext]_vars

BeamInit == TIdle /\ DIdle /\ RIdle /\ BInit /\ XIdle

\* the beam search of one example under every option and every model
BeamSpec == BeamInit /\ [][BeamNext]_vars

\* ------------------------------------- the decoder without input feeding
\* the options of a StdRNNDecoder about to be constructed, and the state
\* and target it will be run on
StdInit ==
    /\ d_cfg \in DecConfigs
    /\ d_tgt \in UNION {[1 .. n -> DecTokens] : n \in 1 .. MaxTgt}
    /\ d_attn \in [1 .. Len(d_tgt) -> AttnDists]
    /\ d_pc = "new"
    /\ d_pos = 0
    /\ d_state = InitColumnState
    /\ d_calls = <<>>
    /\ d_in = <<>>
    /\ d_out = <<>>
    /\ d_attns = [key \in {"std"} |-> <<>>]
    /\ d_ret = None

\* RNNDecoderBase.__init__ run for a StdRNNDecoder: it stores _coverage and
\* _copy and builds rnn, context gate and attention for every combination
\* of options
Construct ==
    /\ d_pc = "new"
    /\ d_pc' = "ready"
    /\ UNCHANGED <<tvars, rvars, bvars, xvars, d_cfg, d_tgt, d_attn, d_pos, d_state, d_calls, d_in,
                   d_out, d_attns, d_ret>>

\* StdRNNDecoder._run_forward_pass on the tokens tgt: the rnn runs over the
\* whole sequence, then the attention, the gate and the dropout
RECURSIVE StdRunForwardPassFrom(_, _, _, _, _)
StdRunForwardPassFrom(c, acc, tgt, first, attn) ==
    IF tgt = <<>> THEN acc
    ELSE LET emb_t == <<"emb", Head(tgt)>>
             rnn_output == <<"rnn_out", emb_t, acc.hidden>>
             attended == <<"attn_out", rnn_output>>
             gated == IF c.context_gate
                      THEN <<"gate", emb_t, rnn_output, attended>>
                      ELSE attended
         IN StdRunForwardPassFrom(c,
                [hidden |-> <<"rnn_h", emb_t, acc.hidden>>,
                 decoder_inputs |-> Append(acc.decoder_inputs, emb_t),
                 decoder_outputs |-> Append(acc.decoder_outputs, <<"dropout", gated>>),
                 std |-> Append(acc.std, attn[first])],
                Tail(tgt), first + 1, attn)

\* the two asserts that open StdRNNDecoder._run_forward_pass
StdSupported(c) == ~c.copy /\ ~c.coverage

\* RNNDecoderBase.forward of a StdRNNDecoder on the next tgt_len tokens
StdForwardCall(tgt_len, tgt_batch, memory_batch) ==
    /\ d_pc = "ready"
    /\ d_pos < Len(d_tgt)
    /\ tgt_len \in 1 .. (Len(d_tgt) - d_pos)
    /\ IF \/ tgt_batch # memory_batch
          \/ ~StdSupported(d_cfg)
          \/ tgt_batch # d_cfg.state_batch
       THEN /\ d_pc' = "aborted"
            /\ UNCHANGED <<d_pos, d_state, d_calls, d_in, d_out, d_attns, d_ret>>
       ELSE LET r == StdRunForwardPassFrom(d_cfg,
                         [hidden |-> d_state.hidden, decoder_inputs |-> <<>>,
                          decoder_outputs |-> <<>>, std |-> <<>>],
                         SubSeq(d_tgt, d_pos + 1, d_pos + tgt_len),
                         d_pos + 1, d_attn)
                attns == [key \in {"std"} |-> r.std]
                final_output == r.decoder_outputs[Len(r.decoder_outputs)]
            IN /\ d_state' = UpdateState(d_state, r.hidden, final_output, None)
               /\ d_pos' = d_pos + tgt_len
               /\ d_calls' = Append(d_calls, tgt_len)
               /\ d_in' = d_in \o r.decoder_inputs
               /\ d_out' = d_out \o r.decoder_outputs
               /\ d_attns' = [key \in DOMAIN d_attns |-> d_attns[key] \o attns[key]]
               /\ d_ret' = Some(attns)
               /\ d_pc' = "ready"
    /\ UNCHANGED <<tvars, rvars, bvars, xvars, d_cfg, d_tgt, d_attn>>

StdForward ==
    \E tgt_len \in 1 .. MaxTgt, tgt_batch \in BatchSizes, memory_batch \in BatchSizes :
        StdForwardCall(tgt_len, tgt_batch, memory_batch)

StdNext == Construct \/ StdForward

StdDecoderInit == TIdle /\ StdInit /\ RIdle /\ BIdle /\ XIdle

\* a StdRNNDecoder constructed with every combination of options and then
\* run on one target sequence, cut into calls in every way
StdSpec == StdDecoderInit /\ [][StdNext]_vars

DecoderInit == TIdle /\ DInit /\ RIdle /\ BIdle /\ XIdle

\* successive forward calls of the input-feeding decoder on one target
\* sequence, cut into calls in every way
DecoderSpec == DecoderInit /\ [][Forward]_vars

Init == TInit /\ DIdle /\ RIdle /\ BIdle /\ XIdle

Next ==
    \/ Repeat
    \/ LoopTest
    \/ GetInput
    \/ MaskInput
    \/ RunDecoder
    \/ Advance
    \/ Reindex
    \/ FromBeam

\* the decode loop with every choice of backpointers, the beams holding
\* one token
Spec == Init /\ [][Next]_vars

NextTokens ==
    \/ Repeat
    \/ LoopTest
    \/ GetInputTokens
    \/ MaskInput
    \/ RunDecoder
    \/ AdvanceInPlace
    \/ Reindex
    \/ FromBeam

\* the decode loop with every choice of tokens, the beams keeping their
\* slot order
TokenSpec == Init /\ [][NextTokens]_vars

\* ------------------------------- the first advance of the beams of a batch
\* the scores of one slot: one token is the best, every other token is
\* below it by the same gap
ScoreRows ==
    {[t \in OutTokens |-> IF t = best THEN top ELSE top - gap] :
        best \in OutTokens, top \in {-1, -3}, gap \in {1, 3}}

\* batch size, beam width and the scores "out" of the first decoder step,
\* one row per column of the flattened batch dimension
FirstSteps ==
    UNION {[batch_size : {bs}, beam_size : {bm},
            out : [0 .. (bs * bm - 1) -> ScoreRows]] :
              <<bs, bm>> \in {x \in (1 .. MaxBatch) \X (1 .. MaxBeam) :
                                x[1] * x[2] <= MaxSlots}}

\* row k of unbottle(out)[:, n] read batch-major
RowsOfExampleBatchMajor(out, n, batch_size, beam_size) ==
    [k \in 0 .. (beam_size - 1) |-> out[n * beam_size + k]]

\* unbottle(out)[:, n], out viewed as beam_size x batch_size x vocabulary:
\* the rows handed to the beam of example n
RowsOfExample(out, n, batch_size, beam_size) ==
    [k \in 0 .. (beam_size - 1) |-> out[k * batch_size + n]]

\* translate_batch has built its beams and run the decoder once
FirstInit ==
    /\ p_args \in FirstSteps
    /\ p_pc = "call"
    /\ p_ret = <<>>

\* for j, b in enumerate(beam): b.advance(out[:, j], ...), on new beams
\* with min_length 0; p_ret holds the beams advanced so far
FirstAdvance ==
    /\ p_pc = "call"
    /\ \E args \in {p_args} :
          /\ p_ret' = Append(p_ret,
                 BeamAdvance(NewBeam(args.beam_size, 1, 0, 0, {}),
                             RowsOfExample(args.out, Len(p_ret),
                                           args.batch_size, args.beam_size)))
          /\ p_pc' = IF Len(p_ret) + 1 < args.batch_size THEN "call" ELSE "done"
    /\ UNCHANGED <<tvars, dvars, rvars, bvars, hvars, p_args>>

FirstStepInit == TIdle /\ DIdle /\ RIdle /\ BIdle /\ FirstInit /\ HIdle

\* the first advance of every beam of a batch, under every score matrix
FirstStepSpec == FirstStepInit /\ [][FirstAdvance]_vars

\* ------------------------------------------------- the copy collapse
\* the slots that the source words of an example add to the vocabulary
ExtSlots == 0 .. (MaxExtra - 1)

\* src_vocab of an example: for every added slot, the id of its word in
\* the target vocabulary, UNK when the word is not in it; words differ
SrcVocabs ==
    {v \in [ExtSlots -> 0 .. (VocabSize - 1)] :
        \A e1, e2 \in ExtSlots : v[e1] = v[e2] /\ v[e1] # UNK => e1 = e2}

\* a probability row over the extended vocabulary, in units of mass
Dists == [Tokens -> {1, 2}]

\* the total of f over the set S
RECURSIVE SumOver(_, _)
SumOver(f, S) ==
    IF S = {} THEN 0
    ELSE LET x == CHOOSE y \in S : TRUE IN f[x] + SumOver(f, S \ {x})

\* the collapse of one row: the mass of every added slot whose word is in
\* the target vocabulary is added to that word's entry and the slot is
\* emptied
CollapseRow(row, src_vocab) ==
    LET known == {e \in ExtSlots : src_vocab[e] # UNK}
    IN [t \in Tokens |->
           IF t >= VocabSize /\ (t - VocabSize) \in known THEN 0
           ELSE row[t] + SumOver([e \in ExtSlots |-> row[VocabSize + e]],
                                 {e \in known : src_vocab[e] = t})]

\* the example of row f of a tensor viewed batch-major
ExampleOfRowBatchMajor(f, batch_size, beam_size) == f \div beam_size

\* the example of row f of unbottle(m) = m.view(beam_size, batch_size, -1)
ExampleOfRow(f, batch_size, beam_size) == f % batch_size

\* data.collapse_copy_scores(unbottle(out.data), batch, vocab, src_vocabs):
\* every row is collapsed under the src_vocab of its example
CollapseCopyScores(out, src_vocabs, batch_size, beam_size) ==
    [f \in DOMAIN out |->
        CollapseRow(out[f], src_vocabs[ExampleOfRow(f, batch_size, beam_size)])]

\* batch size, beam width, the src_vocab of every example and the row the
\* generator returns for every slot
CollapseCalls ==
    UNION {[batch_size : {bs}, beam_size : {bm},
            src_vocabs : [0 .. (bs - 1) -> SrcVocabs],
            row : Dists] :
              <<bs, bm>> \in {x \in (1 .. MaxBatch) \X (1 .. MaxBeam) :
                                x[1] * x[2] <= MaxSlots}}

\* the generator has returned the scores of a decode step with copy attention
CollapseInit ==
    /\ p_args \in CollapseCalls
    /\ p_pc = "call"
    /\ p_ret = None

\* out = data.collapse_copy_scores(unbottle(out.data), ...)
CollapseCopy ==
    /\ p_pc = "call"
    /\ p_ret' = Some(CollapseCopyScores(
                        [f \in 0 .. (p_args.batch_size * p_args.beam_size - 1) |->
                            p_args.row],
                        p_args.src_vocabs, p_args.batch_size, p_args.beam_size))
    /\ p_pc' = "done"
    /\ UNCHANGED <<tvars, dvars, rvars, bvars, hvars, p_args>>

CollapseStepInit == TIdle /\ DIdle /\ RIdle /\ BIdle /\ CollapseInit /\ HIdle

\* the copy collapse of one decode step, under every source vocabulary
CollapseSpec == CollapseStepInit /\ [][CollapseCopy]_vars

\* ------------------------------------------------ init_decoder_state
\* a final state of the encoder, (layers*directions) x batch x dim: column
\* f holds, for every entry x, the term <<kind, x, f>>; a bidirectional
\* encoder returns the entries in the order layer 0 forward, layer 0
\* backward, layer 1 forward, ...
EncFinalTensor(kind, entries, batch_size) ==
    [f \in 0 .. (batch_size - 1) |-> [x \in 1 .. entries |-> <<kind, x - 1, f>>]]

\* encoder_final: one tensor (GRU) or the tuple of hidden and cell (LSTM)
EncFinal(entries, batch_size, lstm) ==
    [tuple |-> lstm,
     parts |-> IF lstm THEN <<EncFinalTensor("enc_h", entries, batch_size),
                              EncFinalTensor("enc_c", entries, batch_size)>>
               ELSE <<EncFinalTensor("enc_h", entries, batch_size)>>]

\* torch.cat of two tensors along dimension 2, column by column and entry
\* by entry; it fails when the entry counts differ
Cat2(xs, ys) == [x \in 1 .. Len(xs) |-> <<"cat", xs[x], ys[x]>>]

\* the first half of the entries concatenated with the second half
FixEncHiddenHalves(h, bidirectional_encoder) ==
    IF bidirectional_encoder
    THEN [f \in DOMAIN h |->
            Cat2(SubSeq(h[f], 1, Len(h[f]) \div 2),
                 SubSeq(h[f], Len(h[f]) \div 2 + 1, Len(h[f])))]
    ELSE h

\* _fix_enc_hidden: torch.cat([h[0:h.size(0):2], h[1:h.size(0):2]], 2)
FixEncHidden(h, bidirectional_encoder) ==
    IF bidirectional_encoder
    THEN [f \in DOMAIN h |->
            Cat2([x \in 1 .. ((Len(h[f]) + 1) \div 2) |-> h[f][2 * x - 1]],
                 [x \in 1 .. (Len(h[f]) \div 2) |-> h[f][2 * x]])]
    ELSE h

\* the torch.cat of _fix_enc_hidden gets as many even as odd entries
FixEncHiddenDefined(h, bidirectional_encoder) ==
    bidirectional_encoder => \A f \in DOMAIN h : Len(h[f]) % 2 = 0

\* init_decoder_state: RNNDecoderState(hidden_size, the fixed final state),
\* and RNNDecoderState.__init__ on it
InitDecoderStateFrom(encoder_final, bidirectional_encoder) ==
    LET rnnstate == [n \in 1 .. Len(encoder_final.parts) |->
                        FixEncHidden(encoder_final.parts[n], bidirectional_encoder)]
    IN [hidden |-> rnnstate,
        input_feed |-> [f \in DOMAIN rnnstate[1] |-> <<"zero">>],
        coverage |-> None]

\* the decoder's bidirectional_encoder option, the entries, batch size and
\* kind of the encoder's final state, and the beam width
InitStateCalls ==
    {c \in [bidirectional_encoder : BOOLEAN,
            entries : 1 .. (2 * MaxLayers),
            lstm : BOOLEAN,
            batch_size : 1 .. MaxBatch,
            beam_size : 1 .. MaxBeam] :
        c.batch_size * c.beam_size <= MaxSlots}

\* translate_batch has run the encoder
InitStateInit ==
    /\ p_args \in InitStateCalls
    /\ p_pc = "call"
    /\ p_ret = None

\* dec_states = self.model.decoder.init_decoder_state(src, memory_bank, enc_states)
InitDecoderStateCall ==
    /\ p_pc = "call"
    /\ LET encoder_final == EncFinal(p_args.entries, p_args.batch_size, p_args.lstm)
       IN IF \A n \in 1 .. Len(encoder_final.parts) :
                 FixEncHiddenDefined(encoder_final.parts[n], p_args.bidirectional_encoder)
          THEN /\ p_ret' = Some(InitDecoderStateFrom(encoder_final,
                                                     p_args.bidirectional_encoder))
               /\ p_pc' = "state"
          ELSE /\ p_ret' = None
               /\ p_pc' = "aborted"
    /\ UNCHANGED <<tvars, dvars, rvars, bvars, hvars, p_args>>

\* dec_states.repeat_beam_size_times(beam_size)
RepeatCall ==
    /\ p_pc = "state"
    /\ p_ret' = Some(RepeatBeamSizeTimes(p_ret[1], p_args.beam_size))
    /\ p_pc' = "done"
    /\ UNCHANGED <<tvars, dvars, rvars, bvars, hvars, p_args>>

InitStateNext == InitDecoderStateCall \/ RepeatCall

InitStateStepInit == TIdle /\ DIdle /\ RIdle /\ BIdle /\ InitStateInit /\ HIdle

\* the DecoderState built from every final state of the encoder, and tiled
InitStateSpec == InitStateStepInit /\ [][InitStateNext]_vars

\* ------------------------------- the layout of the flattened batch
\* One translate_batch call of a text model with copy attention and a GRU
\* decoder is followed with every tensor computed from its inputs: column
\* f of what the decoder returns is a term over column f of what it was
\* given. The locals of the call are the fields of p_ret.
LayoutConfigs ==
    {c \in [batch_size : 1 .. MaxBatch,
            beam_size : 1 .. MaxBeam,
            coverage_attn : BOOLEAN] :
        c.batch_size * c.beam_size <= MaxSlots}

\* b.get_current_state() of the beam of example n at step step: slot k
\* holds a token of its own
CurrentState(step, n, beam_size) ==
    [k \in 0 .. (beam_size - 1) |-> <<"tok", step, n, k>>]

\* column f of the tensors of a DecoderState
StateColumn(state, f) ==
    [hidden |-> [n \in 1 .. Len(state.hidden) |-> state.hidden[n][f]],
     input_feed |-> state.input_feed[f],
     coverage |-> IF state.coverage = None THEN None
                  ELSE Some(state.coverage[1][f])]

\* what the decoder and the generator compute for column f
StepTerm(kind, l, f) ==
    <<kind, l.i, l.inp[f], StateColumn(l.dec_states, f), l.memory_bank[f],
      l.memory_lengths[f]>>

\* the encoder has run on the batch
LInit ==
    /\ p_args \in LayoutConfigs
    /\ p_pc = "call"
    /\ p_ret = None

\* memory_bank = rvar(memory_bank.data), memory_lengths =
\* src_lengths.repeat(beam_size), dec_states.repeat_beam_size_times(beam_size)
LSetUp ==
    /\ p_pc = "call"
    /\ p_ret' =
          Some([dec_states |-> RepeatBeamSizeTimes(
                                  InitDecoderState(p_args.batch_size, FALSE),
                                  p_args.beam_size),
                memory_bank |-> RepeatTensor(Fresh("mem", 0, p_args.batch_size),
                                             p_args.beam_size),
                memory_lengths |-> RepeatTensor(
                                       [n \in 0 .. (p_args.batch_size - 1) |-> <<"len", 0, n>>],
                                       p_args.beam_size),
                i |-> 0, j |-> 0, inp |-> <<>>, out |-> <<>>, beam_attn |-> <<>>,
                given |-> <<>>])
    /\ p_pc' = "for"
    /\ UNCHANGED <<tvars, dvars, rvars, bvars, hvars, p_args>>

\* for i in range(self.max_length): if all(b.done() ...): break
\* inp = var(torch.stack([b.get_current_state() for b in beam]) ...)
LStack ==
    /\ p_pc = "for"
    /\ LET l == p_ret[1]
       IN \E done \in {d \in BOOLEAN : d => l.i > 0} :
             IF l.i >= MaxLength \/ done
             THEN /\ p_pc' = "done"
                  /\ p_ret' = p_ret
             ELSE /\ p_pc' = "decoder"
                  /\ p_ret' = Some([l EXCEPT
                        !.inp = StackInput(
                            [n \in 0 .. (p_args.batch_size - 1) |->
                                CurrentState(l.i, n, p_args.beam_size)],
                            p_args.batch_size, p_args.beam_size),
                        !.given = <<>>])
    /\ UNCHANGED <<tvars, dvars, rvars, bvars, hvars, p_args>>

\* the decoder step, the generator and the copy collapse: out and beam_attn
\* before they are unbottled, and the DecoderState the decoder leaves
LRunDecoder ==
    /\ p_pc = "decoder"
    /\ LET l == p_ret[1]
           cols == DOMAIN l.inp
           p_attn == [f \in cols |-> StepTerm("attn", l, f)]
       IN p_ret' = Some([l EXCEPT
              !.out = [f \in cols |-> StepTerm("out", l, f)],
              !.beam_attn = p_attn,
              !.dec_states =
                  UpdateState(l.dec_states,
                      <<[f \in cols |-> StepTerm("h", l, f)]>>,
                      [f \in cols |-> StepTerm("feed", l, f)],
                      IF p_args.coverage_attn
                      THEN NextCoverage(l.dec_states.coverage, p_attn)
                      ELSE None),
              !.j = 0])
    /\ p_pc' = "advance"
    /\ UNCHANGED <<tvars, dvars, rvars, bvars, hvars, p_args>>

\* b.advance(out[:, j], beam_attn.data[:, j, :memory_lengths[j]], ...) and
\* dec_states.beam_update(j, b.get_current_origin(), beam_size); given
\* records what the beam of every example was handed
LAdvance ==
    /\ p_pc = "advance"
    /\ LET l == p_ret[1]
       IN \E origin \in [0 .. (p_args.beam_size - 1) -> 0 .. (p_args.beam_size - 1)] :
             /\ p_ret' = Some([l EXCEPT
                    !.given = Append(l.given,
                        [scores |-> RowsOfExample(l.out, l.j, p_args.batch_size,
                                                  p_args.beam_size),
                         attn |-> RowsOfExample(l.beam_attn, l.j, p_args.batch_size,
                                                p_args.beam_size),
                         cut |-> l.memory_lengths[l.j]]),
                    !.dec_states = BeamUpdate(l.dec_states, l.j, origin,
                                              p_args.beam_size),
                    !.j = IF l.j + 1 < p_args.batch_size THEN l.j + 1 ELSE l.j,
                    !.i = IF l.j + 1 < p_args.batch_size THEN l.i ELSE l.i + 1])
             /\ p_pc' = IF l.j + 1 < p_args.batch_size THEN "advance" ELSE "for"
    /\ UNCHANGED <<tvars, dvars, rvars, bvars, hvars, p_args>>

LayoutNext == LSetUp \/ LStack \/ LRunDecoder \/ LAdvance

LayoutInit == TIdle /\ DIdle /\ RIdle /\ BIdle /\ HIdle /\ LInit

\* the decode loop with every choice of backpointers, every tensor
\* computed from its inputs
LayoutSpec == LayoutInit /\ [][LayoutNext]_vars

\* ------------------------------------------- hierarchical_encode
\* the outcomes of torch.sort(values, descending=True)[1]: the index
\* vectors that list the values in descending order, equal values in any
\* order
SortDescending(values) ==
    {idx \in [DOMAIN values -> DOMAIN values] :
        /\ \A x, y \in DOMAIN values : idx[x] = idx[y] => x = y
        /\ \A x, y \in DOMAIN values : x < y => values[idx[x]] >= values[idx[y]]}

\* torch.index_select(t, 1, index): column x of the result is column
\* index[x] of t
IndexSelect(t, index) == [x \in DOMAIN index |-> t[index[x]]]

\* the context encoder: column x of what it returns is computed from
\* column x of its input and entry x of its lengths argument
ContextEncoder(kind, inputs, lengths) ==
    [x \in DOMAIN inputs |-> <<kind, inputs[x], lengths[x]>>]

\* the batch: for every example, its number of sentences
EncodeCalls ==
    UNION {[context_lengthes : [0 .. (n - 1) -> 1 .. MaxContext], lstm : BOOLEAN] :
              n \in 1 .. MaxDocs}

\* the sentence encoder has built context_inputs, one column per example
EncodeInit ==
    /\ p_args \in EncodeCalls
    /\ p_pc = "call"
    /\ p_ret = None

\* hierarchical_encode from "sort context inputs dim for packing" to its
\* return
HierarchicalEncode ==
    /\ p_pc = "call"
    /\ LET context_inputs == [x \in DOMAIN p_args.context_lengthes |-> <<"inp", x>>]
       IN \E sorted_indices \in SortDescending(p_args.context_lengthes) :
             \E reversed_indices \in SortDescending(sorted_indices) :
                LET sorted_context_inputs == IndexSelect(context_inputs, sorted_indices)
                    kinds == IF p_args.lstm THEN <<"ctx_h", "ctx_c">> ELSE <<"ctx_h">>
                IN p_ret' = Some(
                      [context_memory_bank |->
                           IndexSelect(ContextEncoder("ctx_mb", sorted_context_inputs,
                                                      sorted_indices),
                                       reversed_indices),
                       context_enc_final |->
                           [n \in 1 .. Len(kinds) |->
                               IndexSelect(ContextEncoder(kinds[n], sorted_context_inputs,
                                                          sorted_indices),
                                           reversed_indices)]])
    /\ p_pc' = "done"
    /\ UNCHANGED <<tvars, dvars, rvars, bvars, hvars, p_args>>

EncodeStepInit == TIdle /\ DIdle /\ RIdle /\ BIdle /\ HIdle /\ EncodeInit

\* the context encoding of every batch, under every outcome of the sort
EncodeSpec == EncodeStepInit /\ [][HierarchicalEncode]_vars

\* ------------------------------------------------- NMTModel.sample
\* The locals of the call are the fields of p_ret; chosen lists the index
\* of every turn of the loop as the model chose it.
\* the tokens the model chooses from: an ordinary word and the end
SampleTokens == {UNK, EosIndex}

\* batch size, tgt.size(0) after tgt = tgt[:-1], and self.decoder._coverage
SampleCalls ==
    [batch_size : 1 .. MaxBatch, tgt_len : 1 .. MaxTgt, coverage : BOOLEAN]

SampleInit ==
    /\ p_args \in SampleCalls
    /\ p_pc = "call"
    /\ p_ret = None

\* encoder, init_decoder_state, init_attn_history and the empty lists
SampleSetUp ==
    /\ p_pc = "call"
    /\ p_ret' = Some([i |-> 0, chosen |-> <<>>,
                      unfinished |-> [f \in 0 .. (p_args.batch_size - 1) |-> 1],
                      out_indices |-> <<>>, decoder_outputs |-> <<>>])
    /\ p_pc' = "for"
    /\ UNCHANGED <<tvars, dvars, rvars, bvars, hvars, p_args>>

\* if i == 0: unfinished = index != eos_index
\* else: unfinished = unfinished * (out_indices[-1] != eos_index)
Unfinished(turn, unfinished, index, out_indices) ==
    IF turn = 0
    THEN [f \in DOMAIN index |-> IF index[f] # EosIndex THEN 1 ELSE 0]
    ELSE [f \in DOMAIN index |->
            unfinished[f] *
                (IF out_indices[Len(out_indices)][f] # EosIndex THEN 1 ELSE 0)]

\* the index appended as it was chosen
KeepChosen(index, unfinished) == index

\* index = index * unfinished.type_as(index) + (unfinished == 0).type_as(index)
PadFinished(index, unfinished) ==
    [f \in DOMAIN index |->
        index[f] * unfinished[f] + (IF unfinished[f] = 0 THEN PadId ELSE 0)]

\* one turn of "for i in range(tgt.size(0))": the decoder step, the choice
\* of index, the break, and the lists growing; with coverage the turn
\* ends at "coverage = coverage + p_attn if coverage is not None else
\* p_attn", which reads locals that have no value yet
SampleStep ==
    /\ p_pc = "for"
    /\ LET l == p_ret[1]
       IN /\ l.i < p_args.tgt_len
          /\ \E index \in [0 .. (p_args.batch_size - 1) -> SampleTokens] :
                LET unfinished == Unfinished(l.i, l.unfinished, index, l.out_indices)
                    seen == [l EXCEPT !.chosen = Append(l.chosen, index),
                                      !.unfinished = unfinished]
                IN IF \A f \in DOMAIN unfinished : unfinished[f] = 0
                   THEN /\ p_ret' = Some(seen)
                        /\ p_pc' = "after"
                   ELSE /\ p_ret' = Some([seen EXCEPT
                              !.out_indices =
                                  Append(l.out_indices,
                                         IF Len(l.out_indices) > 0
                                         THEN PadFinished(index, unfinished)
                                         ELSE index),
                              !.decoder_outputs = Append(l.decoder_outputs, l.i),
                              !.i = l.i + 1])
                        /\ p_pc' = IF p_args.coverage THEN "aborted" ELSE "for"
    /\ UNCHANGED <<tvars, dvars, rvars, bvars, hvars, p_args>>

\* the loop has gone through range(tgt.size(0))
SampleLoopEnd ==
    /\ p_pc = "for"
    /\ p_ret[1].i >= p_args.tgt_len
    /\ p_pc' = "after"
    /\ UNCHANGED <<tvars, dvars, rvars, bvars, hvars, p_args, p_ret>>

\* final_output = decoder_outputs[-1] ... return decoder_outputs, attns,
\* dec_states, out_indices
SampleReturn ==
    /\ p_pc = "after"
    /\ p_pc' = IF p_ret[1].decoder_outputs = <<>> THEN "aborted" ELSE "returned"
    /\ UNCHANGED <<tvars, dvars, rvars, bvars, hvars, p_args, p_ret>>

SampleNext == SampleSetUp \/ SampleStep \/ SampleLoopEnd \/ SampleReturn

SampleCallInit == TIdle /\ DIdle /\ RIdle /\ BIdle /\ HIdle /\ SampleInit

\* one call of sample under every sequence of chosen tokens
SampleSpec == SampleCallInit /\ [][SampleNext]_vars

\* ------------------------------------- the decoder's attention history
\* the model type, max_length and the number of batches of one translate
HistoryConfigs ==
    [model_type : {"text", "hierarchical_text"},
     max_length : 0 .. MaxLength,
     batches : 1 .. MaxTranslations]

\* translate is about to call translate_batch on its first batch; the
\* decoder comes with an empty history
HInit ==
    /\ h_cfg \in HistoryConfigs
    /\ h_pc = "encode"
    /\ h_batch = 0
    /\ h_i = 0
    /\ h_resets = 0
    /\ h_since = 0

\* (1) Run the encoder on the src, and init_decoder_state
HEncode ==
    /\ h_pc = "encode"
    /\ h_pc' = "init_attn_history"
    /\ h_i' = 0
    /\ h_resets' = 0
    /\ UNCHANGED <<tvars, dvars, rvars, bvars, pvars, h_cfg, h_batch, h_since>>

\* if model_type != "hierarchical_text":
ResetsHistory(model_type) == model_type # "hierarchical_text"

\*     self.model.decoder.init_attn_history()
\* dec_states.repeat_beam_size_times(beam_size)
HInitAttnHistory ==
    /\ h_pc = "init_attn_history"
    /\ IF ResetsHistory(h_cfg.model_type)
       THEN /\ h_resets' = h_resets + 1
            /\ h_since' = 0
       ELSE UNCHANGED <<h_resets, h_since>>
    /\ h_pc' = "for"
    /\ UNCHANGED <<tvars, dvars, rvars, bvars, pvars, h_cfg, h_batch, h_i>>

\* for i in range(self.max_length): if all((b.done() for b in beam)): break
\* (a new beam is not done)
HLoopTest ==
    /\ h_pc = "for"
    /\ \E done \in {d \in BOOLEAN : d => h_i > 0} :
          h_pc' = IF h_i >= h_cfg.max_length \/ done THEN "from_beam" ELSE "decoder"
    /\ UNCHANGED <<tvars, dvars, rvars, bvars, pvars, h_cfg, h_batch, h_i, h_resets, h_since>>

\* one step of the decoder, whose attention sees the history and adds to
\* it, and the advance of the beams
HRunDecoder ==
    /\ h_pc = "decoder"
    /\ h_since' = h_since + 1
    /\ h_i' = h_i + 1
    /\ h_pc' = "for"
    /\ UNCHANGED <<tvars, dvars, rvars, bvars, pvars, h_cfg, h_batch, h_resets>>

\* return ret; translate goes on with the next batch
HReturn ==
    /\ h_pc = "from_beam"
    /\ IF h_batch + 1 < h_cfg.batches
       THEN /\ h_batch' = h_batch + 1
            /\ h_pc' = "encode"
       ELSE /\ h_batch' = h_batch
            /\ h_pc' = "returned"
    /\ UNCHANGED <<tvars, dvars, rvars, bvars, pvars, h_cfg, h_i, h_resets, h_since>>

HistoryNext == HEncode \/ HInitAttnHistory \/ HLoopTest \/ HRunDecoder \/ HReturn

HistoryInit == TIdle /\ DIdle /\ RIdle /\ BIdle /\ PIdle /\ HInit

\* the batches of one translate, one translate_batch call after the other
HistorySpec == HistoryInit /\ [][HistoryNext]_vars

\* ------------------------------------------------------------- properties
Terminated == pc \in {"returned", "aborted"}

\* the positions handed to the beam_update that is about to run
Positions == beam[j].prev_ks

\* flat index of beam slot k of source example n in a tensor of batch
\* dimension batch_size * beam_size
Flat(k, n) == k * cfg.batch_size + n

\* a step of the model is a beam_update
IsReindex == upd' # upd

\* steps of translate_batch in one iteration of the decode loop
IterationSteps == 4 + 2 * cfg.batch_size

\* an upper bound of the number of steps translate_batch still takes
Rank ==
    LET left == (cfg.max_length - i) * IterationSteps
    IN CASE pc = "repeat" -> cfg.max_length * IterationSteps + 3
         [] pc = "for" -> left + 2
         [] pc = "stack" -> left + 1
         [] pc = "mask" -> left
         [] pc = "decoder" -> left - 1
         [] pc = "advance" -> left - 2 - 2 * j
         [] pc = "beam_update" -> left - 3 - 2 * j
         [] pc = "from_beam" -> 1
         [] OTHER -> 0

\* C1: the decode loop terminates (every step of translate_batch lowers a
\* natural-number bound of the steps left); the decoder is run at most
\* max_length times, and never in an iteration at whose start every beam
\* is done.
C1_LoopTerminates ==
    /\ [](n_dec <= cfg.max_length)
    /\ [](Rank >= 0)
    /\ [][Rank' < Rank]_vars
    /\ [][n_dec' # n_dec => ~(\A n \in DOMAIN beam : beam[n].done)]_vars

C1_Witness ==
    /\ pc = "returned"
    /\ n_dec >= 1
    /\ n_dec < cfg.max_length
    /\ \A n \in DOMAIN beam : beam[n].done

\* C2: the reindex of example j runs after beam j's advance of the same
\* iteration, with the origin that advance produced, and the decoder only
\* runs when every example has been reindexed as often as it was advanced.
C2_ReindexFollowsAdvance ==
    /\ [](pc = "decoder" =>
            \A n \in DOMAIN beam : upd[n] = n_dec /\ beam[n].steps = n_dec)
    /\ [][IsReindex =>
            /\ beam[j].steps = n_dec
            /\ upd[j] + 1 = n_dec
            /\ upd' = [upd EXCEPT ![j] = n_dec]
            /\ last_positions'[j] = Some(beam[j].prev_ks)
            /\ beam' = beam]_vars

C2_Witness ==
    /\ pc = "decoder"
    /\ n_dec >= 1
    /\ cfg.batch_size >= 2
    /\ \E n \in DOMAIN beam : \E k \in DOMAIN beam[n].prev_ks : beam[n].prev_ks[k] # k

\* C3: beam_update is a pure gather: slot k of example j afterwards holds
\* what slot positions[k] of example j held before, for every tensor of
\* _all, and the batch dimension of each tensor is unchanged.
C3_PureGather ==
    [][IsReindex =>
        /\ Len(All(dec_states')) = Len(All(dec_states))
        /\ \A n \in 1 .. Len(All(dec_states)) :
             /\ DOMAIN All(dec_states')[n] = DOMAIN All(dec_states)[n]
             /\ \A k \in Slots :
                  All(dec_states')[n][Flat(k, j)] =
                      All(dec_states)[n][Flat(Positions[k], j)]]_vars

\* a swap was applied: each slot's source was itself overwritten
C3_Witness ==
    /\ cfg.beam_size >= 2
    /\ \E n \in DOMAIN last_positions :
          /\ last_positions[n] # None
          /\ last_positions[n][1][0] = 1
          /\ last_positions[n][1][1] = 0
          /\ upd[n] = n_dec
          /\ dec_states.input_feed[Flat(0, n)] = <<"out", n_dec, Flat(1, n)>>
          /\ dec_states.input_feed[Flat(1, n)] = <<"out", n_dec, Flat(0, n)>>

\* C4: beam_update(j, ...) leaves every slot of every other example
\* unchanged, in every tensor of the state.
C4_OtherExamplesUnchanged ==
    [][IsReindex =>
        /\ \A n \in 1 .. Len(All(dec_states)) :
             \A f \in DOMAIN All(dec_states)[n] :
                f % cfg.batch_size # j =>
                    All(dec_states')[n][f] = All(dec_states)[n][f]
        /\ dec_states.coverage # None =>
             \A f \in DOMAIN dec_states.coverage[1] :
                f % cfg.batch_size # j =>
                    dec_states'.coverage[1][f] = dec_states.coverage[1][f]]_vars

C4_Witness ==
    /\ cfg.batch_size >= 2
    /\ cfg.beam_size >= 2
    /\ pc = "advance"
    /\ j = 1
    /\ last_positions[0] # None
    /\ last_positions[0][1][0] = 1
    /\ dec_states.input_feed[Flat(0, 0)] = <<"out", n_dec, Flat(1, 0)>>
    /\ dec_states.input_feed[Flat(0, 1)] = <<"out", n_dec, Flat(0, 1)>>

\* C5: from repeat_beam_size_times onward every tensor of the DecoderState
\* has batch dimension batch_size * beam_size.
C5_BatchDimension ==
    pc # "repeat" =>
        /\ \A n \in 1 .. Len(dec_states.hidden) :
              Size(dec_states.hidden[n]) = cfg.batch_size * cfg.beam_size
        /\ Size(dec_states.input_feed) = cfg.batch_size * cfg.beam_size
        /\ dec_states.coverage # None =>
              Size(dec_states.coverage[1]) = cfg.batch_size * cfg.beam_size

C5_Witness ==
    /\ pc = "for"
    /\ i >= 1
    /\ cfg.beam_size >= 2
    /\ cfg.batch_size >= 2
    /\ cfg.lstm
    /\ dec_states.coverage # None

\* C6: after a reindex every component of the DecoderState at slot k of
\* example j, the coverage vector included, is the one of the parent
\* hypothesis get_current_origin()[k].
C6_EveryComponentFollowsOrigin ==
    [][IsReindex =>
        /\ \A n \in 1 .. Len(dec_states.hidden) : \A k \in Slots :
              dec_states'.hidden[n][Flat(k, j)] =
                  dec_states.hidden[n][Flat(Positions[k], j)]
        /\ \A k \in Slots :
              dec_states'.input_feed[Flat(k, j)] =
                  dec_states.input_feed[Flat(Positions[k], j)]
        /\ dec_states.coverage # None =>
              \A k \in Slots :
                 dec_states'.coverage[1][Flat(k, j)] =
                     dec_states.coverage[1][Flat(Positions[k], j)]]_vars

\* C7: once done() of a beam has returned true, that beam is never
\* advanced again.
C7_DoneBeamNeverAdvanced ==
    [][\A n \in DOMAIN beam :
          seen_done[n] => beam'[n].steps = beam[n].steps]_vars

\* C8: with copy attention, every id >= vocabulary size taken from the
\* beams reaches the decoder as the unknown-token id, every other id
\* unchanged, so the decoder never receives an id >= vocabulary size.
C8_CopiedWordsBecomeUnk ==
    (cfg.copy_attn /\ pc = "decoder") =>
        /\ DOMAIN inp = DOMAIN raw_inp
        /\ \A f \in DOMAIN inp :
              /\ raw_inp[f] >= VocabSize => inp[f] = UNK
              /\ raw_inp[f] < VocabSize => inp[f] = raw_inp[f]
              /\ inp[f] < VocabSize

C8_Witness ==
    /\ cfg.copy_attn
    /\ pc = "decoder"
    /\ n_dec >= 1
    /\ \E f \in DOMAIN raw_inp : raw_inp[f] >= VocabSize /\ inp[f] = UNK
    /\ \E f \in DOMAIN raw_inp : raw_inp[f] # UNK /\ raw_inp[f] < VocabSize

\* position-wise sum of two attention vectors
VecSum(a, b) == [s \in DOMAIN a |-> a[s] + b[s]]

\* C9: with coverage enabled, the coverage of every step is the coverage of
\* the step before plus the step's attention (the attention itself at the
\* first step), within a forward call and across calls, and the state
\* holds the coverage of the last step.
C9_CoverageAccumulates ==
    (d_pc = "ready" /\ d_cfg.coverage) =>
        /\ Len(d_attns["coverage"]) = d_pos
        /\ \A t \in 1 .. d_pos :
              d_attns["coverage"][t] =
                  IF t = 1 THEN d_attns["std"][1]
                  ELSE VecSum(d_attns["coverage"][t - 1], d_attns["std"][t])
        /\ \A t \in 1 .. d_pos : d_attns["std"][t] = d_attn[t]
        /\ d_pos > 0 => d_state.coverage = Some(d_attns["coverage"][d_pos])

C9_Witness ==
    /\ d_pc = "ready"
    /\ d_cfg.coverage
    /\ d_calls = <<2, 1>>
    /\ \A t \in 1 .. 3 : d_attn[t][1] = 1
    /\ d_state.coverage[1][1] = 3

\* C10: the output emitted at step t is the input feed concatenated with
\* the embedding of token t+1, the first step is fed the all-zero vector,
\* and after a forward call the state's input feed is the last output.
C10_OutputIsNextInputFeed ==
    d_pc = "ready" =>
        /\ Len(d_in) = d_pos /\ Len(d_out) = d_pos
        /\ \A t \in 1 .. d_pos :
              d_in[t] = <<"cat", <<"emb", d_tgt[t]>>,
                          IF t = 1 THEN Zero ELSE d_out[t - 1]>>
        /\ \A t \in 1 .. d_pos : d_out[t][1] = "dropout"
        /\ d_state.input_feed = IF d_pos = 0 THEN Zero ELSE d_out[d_pos]

C10_Witness ==
    /\ d_pc = "ready"
    /\ d_cfg.context_gate
    /\ d_calls = <<1, 2>>
    /\ d_state.input_feed = d_out[3]
    /\ d_in[3][3] = d_out[2]

\* C11: the attns mapping returned by a forward call of the input-feeding
\* decoder always has the key "std", has "coverage" exactly when coverage
\* is enabled and "copy" exactly when copy is enabled, its "copy" trace is
\* its "std" trace row for row, and every trace has one row per target
\* position decoded by that call.
C11_AttentionTraceKeys ==
    (d_pc = "ready" /\ d_ret # None) =>
        LET attns == d_ret[1]
            tgt_len == d_calls[Len(d_calls)]
        IN /\ "std" \in DOMAIN attns
           /\ "coverage" \in DOMAIN attns <=> d_cfg.coverage
           /\ "copy" \in DOMAIN attns <=> d_cfg.copy
           /\ DOMAIN attns \subseteq {"std", "coverage", "copy"}
           /\ d_cfg.copy => attns["copy"] = attns["std"]
           /\ \A key \in DOMAIN attns : Len(attns[key]) = tgt_len
           /\ \A t \in 1 .. tgt_len :
                 attns["std"][t] = d_attn[d_pos - tgt_len + t]

C11_Witness ==
    /\ d_pc = "ready"
    /\ d_cfg.copy /\ d_cfg.coverage
    /\ d_calls = <<1, 2>>
    /\ DOMAIN d_ret[1] = {"std", "coverage", "copy"}
    /\ Len(d_ret[1]["copy"]) = 2

\* C13: a forward call whose target tokens, memory bank and DecoderState
\* do not all have the same batch size aborts, and the DecoderState
\* (hidden, input feed, coverage) is what it was before the call: no step
\* of the recurrent cell ran and nothing was returned.
C13_MismatchAbortsBeforeUpdate ==
    [][\A n \in 1 .. MaxTgt, tb \in BatchSizes, mb \in BatchSizes :
          (~(tb = mb /\ tb = d_cfg.state_batch) /\ ForwardCall(n, tb, mb)) =>
              /\ d_pc' = "aborted"
              /\ d_state' = d_state
              /\ d_in' = d_in
              /\ d_out' = d_out
              /\ d_ret' = d_ret]_vars

C13_Witness ==
    /\ d_pc = "aborted"
    /\ d_calls = <<1>>
    /\ d_state.input_feed = d_out[1]
    /\ d_state.hidden # <<"enc_final">>

C14_ReportNeverAborts ==
    r_pc # "aborted"

\* C15: _from_beam returns at most n_best results for the example, in the
\* order of sort_finished, and its predictions, scores and attention lists
\* have the same length, entry x of each belonging to the x-th ranked
\* hypothesis.
C15_FromBeamListsAlign ==
    b_pc = "returned" =>
        LET r == b_ret[1]
            sf == SortFinished(b_beam, b_cfg.n_best)
        IN /\ Len(r.predictions) <= b_cfg.n_best
           /\ Len(r.scores) = Len(r.predictions)
           /\ Len(r.attention) = Len(r.predictions)
           /\ \A x \in 1 .. Len(r.predictions) :
                 /\ r.predictions[x] = GetHyp(b_beam, sf.ks[x][1], sf.ks[x][2])
                 /\ r.scores[x] = sf.scores[x]
                 /\ r.attention[x] = <<"attn", sf.ks[x][1], sf.ks[x][2]>>

\* C16: with beam width 1, no n-gram blocking, no penalty and min length
\* 0, the token sequence beam search returns is the greedy one: the
\* arg-max token of every step until the terminal symbol or max_length.
C16_BeamOneIsGreedy ==
    (/\ b_pc = "returned"
     /\ b_cfg.beam_size = 1
     /\ b_cfg.block_ngram_repeat = 0
     /\ b_cfg.min_length = 0) =>
        /\ Len(b_ret[1].predictions) = 1
        /\ b_ret[1].predictions[1] = Greedy(b_model, BOS, b_cfg.max_length)

C16_Witness ==
    /\ b_pc = "returned"
    /\ b_cfg.beam_size = 1
    /\ b_cfg.block_ngram_repeat = 0
    /\ b_cfg.min_length = 0
    /\ b_ret[1].predictions[1] = <<1, 0, EOS>>

\* the keys sort_finished adds by closing live hypotheses
Forced(b, n_best) ==
    {key \in Range(SortFinished(b, n_best).ks) :
        \A x \in 1 .. Len(b.finished) : key # <<b.finished[x].step, b.finished[x].slot>>}

\* the loop was left with the beam not done and fewer than n_best
\* hypotheses ended by the terminal symbol
LengthExhausted ==
    /\ b_pc = "returned"
    /\ ~BeamDone(b_beam)
    /\ Len(b_beam.finished) < b_cfg.n_best

C18_ScoresDescending ==
    (b_pc = "loop" /\ b_i > 0) =>
        \A k \in 1 .. (b_beam.size - 1) : b_beam.scores[k - 1] >= b_beam.scores[k]

C18_Witness ==
    /\ b_pc = "loop"
    /\ b_i = 2
    /\ b_beam.size = 2
    /\ b_beam.scores[0] = -3
    /\ b_beam.scores[1] = -4
    /\ GetCurrentOrigin(b_beam) = [k \in 0 .. 1 |-> 1 - k]

\* hyp holds the same n tokens in a row twice, none of them excluded
HasRepeat(hyp, n, exclusion_tokens) ==
    \E p \in 1 .. Len(hyp), q \in 1 .. Len(hyp) :
        /\ p < q
        /\ q + n - 1 <= Len(hyp)
        /\ SubSeq(hyp, p, p + n - 1) = SubSeq(hyp, q, q + n - 1)
        /\ Range(SubSeq(hyp, p, p + n - 1)) \cap exclusion_tokens = {}

C20_OriginsAreSlots ==
    (b_pc = "loop" /\ b_i > 0) =>
        /\ DOMAIN GetCurrentOrigin(b_beam) = 0 .. (b_cfg.beam_size - 1)
        /\ DOMAIN GetCurrentState(b_beam) = 0 .. (b_cfg.beam_size - 1)
        /\ \A k \in 0 .. (b_cfg.beam_size - 1) :
              /\ GetCurrentOrigin(b_beam)[k] \in 0 .. (b_cfg.beam_size - 1)
              /\ GetCurrentState(b_beam)[k] \in OutTokens

C20_Witness ==
    /\ b_pc = "loop"
    /\ b_i = 3
    /\ b_cfg.beam_size = 2
    /\ b_cfg.block_ngram_repeat = 1
    /\ b_cfg.min_length = BeamMaxLength
    /\ \A k \in 0 .. 1 : b_beam.scores[k] = NegInf
    /\ \A k \in 0 .. 1 : GetHyp(b_beam, 2, GetCurrentOrigin(b_beam)[k]) = <<0, 1>>
    /\ GetCurrentOrigin(b_beam) = [k \in 0 .. 1 |-> 0]

\* the rows of the score matrix that belong to the slots of example n
OwnRows(n) ==
    [k \in 0 .. (p_args.beam_size - 1) |-> p_args.out[k * p_args.batch_size + n]]

\* in every row, word w scores above every other token of that row
TopOfEveryRow(rows, w) ==
    \A k \in DOMAIN rows : \A t \in OutTokens \ {w} : rows[k][w] > rows[k][t]

\* in every row, word w scores above every other token of every row
TopOfMatrix(rows, w) ==
    \A k, k2 \in DOMAIN rows : \A t \in OutTokens \ {w} : rows[k][w] > rows[k2][t]

C22_CollapseMovesMassOnce ==
    p_pc = "done" =>
        \A f \in DOMAIN p_ret[1] :
            LET own == p_args.src_vocabs[f % p_args.batch_size]
                before == p_args.row
                after == p_ret[1][f]
            IN /\ SumOver(after, Tokens) = SumOver(before, Tokens)
               /\ \A e \in ExtSlots :
                     IF own[e] # UNK
                     THEN /\ after[VocabSize + e] = 0
                          /\ after[own[e]] = before[own[e]] + before[VocabSize + e]
                     ELSE after[VocabSize + e] = before[VocabSize + e]
               /\ \A t \in 0 .. (VocabSize - 1) :
                     (\A e \in ExtSlots : own[e] # t \/ t = UNK) => after[t] = before[t]
               /\ CollapseRow(after, own) = after

\* a batch of several examples and several slots was collapsed, the
\* examples differing in whether the source word is in the target vocabulary
C22_Witness ==
    /\ p_pc = "done"
    /\ p_args.batch_size > 1
    /\ p_args.beam_size > 1
    /\ \E e \in ExtSlots :
          /\ p_args.src_vocabs[0][e] = UNK
          /\ p_args.src_vocabs[1][e] # UNK
          /\ p_ret[1][1][VocabSize + e] = 0
          /\ p_ret[1][0][VocabSize + e] > 0
\* C23: the state init_decoder_state builds from a bidirectional encoder's
\* 2L entries has L entries per batch column, entry l the concatenation
\* of the forward and the backward final state of layer l of that same
\* column; from a unidirectional encoder it is the final state as it
\* was; hidden and cell are treated alike, and one tensor becomes a tuple
\* of one.
C23_FixEncHidden ==
    p_pc = "state" =>
        LET hidden == p_ret[1].hidden
            kinds == IF p_args.lstm THEN <<"enc_h", "enc_c">> ELSE <<"enc_h">>
        IN /\ Len(hidden) = Len(kinds)
           /\ \A n \in 1 .. Len(hidden) :
                 /\ DOMAIN hidden[n] = 0 .. (p_args.batch_size - 1)
                 /\ \A f \in DOMAIN hidden[n] :
                       IF p_args.bidirectional_encoder
                       THEN /\ 2 * Len(hidden[n][f]) = p_args.entries
                            /\ \A l \in 1 .. Len(hidden[n][f]) :
                                  hidden[n][f][l] =
                                      <<"cat", <<kinds[n], 2 * (l - 1), f>>,
                                               <<kinds[n], 2 * (l - 1) + 1, f>>>>
                       ELSE /\ Len(hidden[n][f]) = p_args.entries
                            /\ \A x \in 1 .. p_args.entries :
                                  hidden[n][f][x] = <<kinds[n], x - 1, f>>

\* the state was built from the hidden and cell states of a bidirectional
\* encoder of several layers, for a batch of several examples
C23_Witness ==
    /\ p_pc = "state"
    /\ p_args.bidirectional_encoder
    /\ p_args.lstm
    /\ p_args.entries = 2 * MaxLayers
    /\ p_args.batch_size = MaxBatch
    /\ Len(p_ret[1].hidden[2][MaxBatch - 1]) = MaxLayers
\* C24: whenever translate_batch is past its set-up, for every model type,
\* the attention history was reset exactly once in this call, and the
\* decoder steps run since the last reset are the steps of this batch.
C24_HistoryResetOncePerBatch ==
    h_pc \in {"for", "decoder", "from_beam"} =>
        /\ h_resets = 1
        /\ h_since = h_i
\* the source examples that a term, or a column of the DecoderState, was
\* computed from
RECURSIVE ExamplesOfTerm(_), ExamplesOfColumn(_)
ExamplesOfTerm(t) ==
    IF t[1] = "zero" THEN {}
    ELSE IF t[1] \in {"enc_h", "enc_c", "mem", "len", "tok"} THEN {t[3]}
    ELSE ExamplesOfTerm(t[3]) \cup ExamplesOfColumn(t[4])
         \cup ExamplesOfTerm(t[5]) \cup ExamplesOfTerm(t[6])

ExamplesOfColumn(col) ==
    UNION {ExamplesOfTerm(col.hidden[n]) : n \in 1 .. Len(col.hidden)}
    \cup ExamplesOfTerm(col.input_feed)
    \cup (IF col.coverage = None THEN {}
          ELSE UNION {ExamplesOfTerm(col.coverage[1][x]) :
                         x \in 1 .. Len(col.coverage[1])})

\* C25: slot k of example n is column k * batch_size + n everywhere: in
\* the DecoderState, whose column was computed from example n alone, in
\* the memory bank and the memory lengths, in the token input, and in the
\* rows handed to the beam of example n, where row k was computed from the
\* token of the beam's slot k and from that column of the state, the
\* memory bank and the lengths; the attention is cut to the length of
\* example n.
C25_BeamMajorThroughout ==
    p_pc \in {"for", "decoder", "advance", "done"} =>
        LET l == p_ret[1]
            bs == p_args.batch_size
        IN \A n \in 0 .. (bs - 1) : \A k \in 0 .. (p_args.beam_size - 1) :
              LET f == k * bs + n
              IN /\ ExamplesOfColumn(StateColumn(l.dec_states, f)) \subseteq {n}
                 /\ l.memory_bank[f] = <<"mem", 0, n>>
                 /\ l.memory_lengths[f] = <<"len", 0, n>>
                 /\ p_pc \in {"decoder", "advance"} =>
                       l.inp[f] = <<"tok", l.i, n, k>>
                 /\ n < Len(l.given) =>
                       LET g == l.given[n + 1]
                       IN /\ g.cut = <<"len", 0, n>>
                          /\ \A row \in {g.scores[k], g.attn[k]} :
                                /\ row[3] = <<"tok", row[2], n, k>>
                                /\ ExamplesOfColumn(row[4]) \subseteq {n}
                                /\ row[5] = <<"mem", 0, n>>
                                /\ row[6] = <<"len", 0, n>>

\* in a batch of several examples and several slots, the beam of the last
\* example was handed, at a later step, a row whose state descends from
\* another slot
C25_Witness ==
    /\ p_pc \in {"for", "advance"}
    /\ p_args.batch_size = MaxBatch
    /\ p_args.beam_size > 1
    /\ Len(p_ret[1].given) = MaxBatch
    /\ LET row == p_ret[1].given[MaxBatch].scores[1]
       IN /\ row[2] > 0
          /\ row[4].hidden[1][3] = <<"tok", row[2] - 1, MaxBatch - 1, 0>>
\* C26: with model type "text" and copy attention disabled, no decode step
\* of translate_batch raises an error.
C26_TextWithoutCopyAdvances ==
    cfg.model_type = "text" /\ ~cfg.copy_attn => pc # "aborted"
\* C27: column x of the context_memory_bank and of every component of
\* the context_enc_final that hierarchical_encode returns was computed
\* from the context input of example x.
C27_RestoredOrder ==
    p_pc = "done" =>
        \A x \in DOMAIN p_args.context_lengthes :
            /\ p_ret[1].context_memory_bank[x][2] = <<"inp", x>>
            /\ \A n \in 1 .. Len(p_ret[1].context_enc_final) :
                  p_ret[1].context_enc_final[n][x][2] = <<"inp", x>>
\* C28: however the target tokens consumed so far were cut into forward
\* calls of the input-feeding decoder, one token per call included, the
\* outputs, the attention and coverage rows and the DecoderState are
\* those of one forward call on all these tokens.
C28_CallsComposeToOneCall ==
    (d_pc = "ready" /\ d_pos > 0) =>
        LET one == RunForwardPass(d_cfg, InitColumnState,
                                  SubSeq(d_tgt, 1, d_pos), 1, d_attn)
        IN /\ d_out = one.decoder_outputs
           /\ d_attns["std"] = one.std
           /\ d_cfg.coverage => d_attns["coverage"] = one.cov
           /\ d_state.hidden = one.hidden
           /\ d_state.input_feed = one.decoder_outputs[d_pos]
           /\ d_state.coverage = IF d_cfg.coverage THEN Some(one.cov[d_pos]) ELSE None

\* the longest target was consumed one token per call, with coverage
C28_Witness ==
    /\ d_pc = "ready"
    /\ d_cfg.coverage
    /\ d_pos = MaxTgt
    /\ Len(d_calls) = MaxTgt
    /\ \A n \in 1 .. MaxTgt : d_calls[n] = 1
\* the first turn, counted from 1, at which column f chose the end token;
\* 0 when it never did
FirstEos(chosen, f) ==
    IF \E t \in 1 .. Len(chosen) : chosen[t][f] = EosIndex
    THEN CHOOSE t \in 1 .. Len(chosen) :
            /\ chosen[t][f] = EosIndex
            /\ \A u \in 1 .. (t - 1) : chosen[u][f] # EosIndex
    ELSE 0

\* C29: in the out_indices that sample returns, every entry of a column up
\* to and including its first end token is the token the model chose,
\* every later entry is the padding id, and the rows stop with the turn
\* at which the last column chose its end token.
C29_PaddedAfterEos ==
    p_pc = "returned" =>
        LET l == p_ret[1]
            cols == 0 .. (p_args.batch_size - 1)
        IN /\ \A f \in cols : \A t \in 1 .. Len(l.out_indices) :
                 l.out_indices[t][f] =
                     IF FirstEos(l.chosen, f) = 0 \/ t <= FirstEos(l.chosen, f)
                     THEN l.chosen[t][f]
                     ELSE PadId
           /\ (\A f \in cols : FirstEos(l.chosen, f) > 0) =>
                 \E f \in cols :
                     /\ Len(l.out_indices) = FirstEos(l.chosen, f)
                     /\ \A g \in cols : FirstEos(l.chosen, g) <= FirstEos(l.chosen, f)

\* sample returned a batch in which one column chose the end token at the
\* first turn and another end token later, while another column went on
C29_Witness ==
    /\ p_pc = "returned"
    /\ p_args.batch_size > 1
    /\ Len(p_ret[1].out_indices) = MaxTgt
    /\ FirstEos(p_ret[1].chosen, 0) = 1
    /\ p_ret[1].chosen[2][0] = EosIndex
    /\ p_ret[1].out_indices[2][0] = PadId
    /\ FirstEos(p_ret[1].chosen, 1) = MaxTgt

\* C30: sample does not raise an error, whatever tokens are chosen.
C30_SampleReturns ==
    p_pc # "aborted"
====









